---------------------------- MODULE Spec2Model ----------------------------
(***************************************************************************)
(* A model of src/src/libemulator/posix.c: the file descriptor table       *)
(* (struct fd_table, struct fd_entry, struct fd_object), the system calls  *)
(* that work on it, and the emulated path resolver path_get().             *)
(*                                                                         *)
(* Sections of code that run under ft->lock held exclusively are one       *)
(* action each: the lock admits no other thread into the table while they  *)
(* run.  fd_object_get() (shared lock, atomic reference count increment)   *)
(* is one action as well.  What a thread does outside the lock, notably    *)
(* fd_object_release(), is a separate action of that thread.               *)
(***************************************************************************)
EXTENDS Integers, Sequences, FiniteSets, TLC

VARIABLES
    ft,        \* struct fd_table: [entries, size, used]
    objs,      \* the heap of struct fd_object, by address
    th,        \* per thread: where it is in its system call, what it holds
    last,      \* the system call step taken last, its arguments and its result
    fault,     \* "none", or how the process died (abort(), SIGSEGV, ...)
    pa         \* the state of one path_get() call (the resolver)

vars == <<ft, objs, th, last, fault, pa>>

-----------------------------------------------------------------------------
(* Bounds of the model.                                                    *)

MaxObjs == 3      \* addresses available to fd_object_new()
MaxUsed == 2      \* inserting system calls are explored while used stays <= this
MaxFd == 3        \* file descriptor numbers passed as arguments: 0..MaxFd

-----------------------------------------------------------------------------
(* Values.                                                                 *)

NULL == 0
ObjIds == 1..MaxObjs
Threads == {"t1", "t2"}
FdArgs == 0..MaxFd

(* The host directory the process is started with a handle on. *)
HandleDir == "R"

OK == "0"
CLOUDABI_EBADF == "EBADF"
CLOUDABI_ENOTCAPABLE == "ENOTCAPABLE"
CLOUDABI_ENOMEM == "ENOMEM"
CLOUDABI_EINVAL == "EINVAL"

RIGHTS_ALL ==
    {"FD_READ", "FD_WRITE", "FD_SEEK", "FD_DATASYNC", "FD_SYNC",
     "FILE_OPEN", "FILE_CREATE_FILE", "FILE_STAT_FPUT_SIZE"}

(* The per-type maxima of rights.h, cut down to RIGHTS_ALL.                *)
RIGHTS_REGULAR_FILE_BASE ==
    {"FD_READ", "FD_WRITE", "FD_SEEK", "FD_DATASYNC", "FD_SYNC",
     "FILE_STAT_FPUT_SIZE"}
RIGHTS_REGULAR_FILE_INHERITING == {}
RIGHTS_DIRECTORY_BASE == {"FD_SYNC", "FILE_OPEN", "FILE_CREATE_FILE"}
RIGHTS_DIRECTORY_INHERITING ==
    RIGHTS_DIRECTORY_BASE \cup RIGHTS_REGULAR_FILE_BASE
RIGHTS_SOCKET_BASE == {"FD_READ", "FD_WRITE"}
RIGHTS_SOCKET_INHERITING == RIGHTS_ALL
RIGHTS_SHARED_MEMORY_BASE == {"FD_READ", "FD_WRITE", "FILE_STAT_FPUT_SIZE"}
RIGHTS_SHARED_MEMORY_INHERITING == {}

-----------------------------------------------------------------------------
(* struct fd_entry, struct fd_table.                                       *)

fd_entry(fo, rights_base, rights_inheriting) ==
    [object |-> fo, rights_base |-> rights_base,
     rights_inheriting |-> rights_inheriting]

(* A slot fd_table_grow() has just marked unused: only .object is written. *)
UnusedEntry == fd_entry(NULL, {}, {})

(* fd_table_init() *)
fd_table_init == [entries |-> [i \in {} |-> UnusedEntry], size |-> 0, used |-> 0]

(* fd_table_get_entry() that does not look at rights_inheriting. *)
fd_table_get_entry_base_only(t, fd, rights_base, rights_inheriting) ==
    IF fd >= t.size THEN CLOUDABI_EBADF
    ELSE IF t.entries[fd].object = NULL THEN CLOUDABI_EBADF
    ELSE IF (rights_base \ t.entries[fd].rights_base) # {}
         THEN CLOUDABI_ENOTCAPABLE
    ELSE OK

(* fd_table_get_entry(): existence first, then the rights. *)
fd_table_get_entry(t, fd, rights_base, rights_inheriting) ==
    IF fd >= t.size THEN CLOUDABI_EBADF
    ELSE IF t.entries[fd].object = NULL THEN CLOUDABI_EBADF
    ELSE IF \/ (rights_base \ t.entries[fd].rights_base) # {}
            \/ (rights_inheriting \ t.entries[fd].rights_inheriting) # {}
         THEN CLOUDABI_ENOTCAPABLE
    ELSE OK

(* The doubling loop of fd_table_grow(). *)
RECURSIVE GrowLoop(_, _, _)
GrowLoop(size, min, need) ==
    IF size <= min \/ size < need THEN GrowLoop(size * 2, min, need) ELSE size

(* Whether fd_table_grow() has to reallocate. *)
NeedsGrow(t, min, incr) == t.size <= min \/ t.size < (t.used + incr) * 2

(* fd_table_grow() that stops doubling at used + incr slots. *)
fd_table_grow_tight(t, min, incr) ==
    IF NeedsGrow(t, min, incr)
    THEN LET size == GrowLoop(IF t.size = 0 THEN 1 ELSE t.size, min,
                              t.used + incr)
         IN [t EXCEPT !.entries = [i \in 0..(size - 1) |->
                                      IF i < t.size THEN t.entries[i]
                                      ELSE UnusedEntry],
                      !.size = size]
    ELSE t

(* fd_table_grow() that marks every slot of the new array unused. *)
fd_table_grow_wiping(t, min, incr) ==
    IF NeedsGrow(t, min, incr)
    THEN LET size == GrowLoop(IF t.size = 0 THEN 1 ELSE t.size, min,
                              (t.used + incr) * 2)
         IN [t EXCEPT !.entries = [i \in 0..(size - 1) |-> UnusedEntry],
                      !.size = size]
    ELSE t

(* fd_table_grow() that allocates just what the two constraints ask for. *)
fd_table_grow_exact(t, min, incr) ==
    IF NeedsGrow(t, min, incr)
    THEN LET need == (t.used + incr) * 2
             size == IF min + 1 > need THEN min + 1 ELSE need
         IN [t EXCEPT !.entries = [i \in 0..(size - 1) |->
                                      IF i < t.size THEN t.entries[i]
                                      ELSE UnusedEntry],
                      !.size = size]
    ELSE t

(* fd_table_grow() when realloc() succeeds. *)
fd_table_grow(t, min, incr) ==
    IF NeedsGrow(t, min, incr)
    THEN LET size == GrowLoop(IF t.size = 0 THEN 1 ELSE t.size, min,
                              (t.used + incr) * 2)
         IN [t EXCEPT !.entries = [i \in 0..(size - 1) |->
                                      IF i < t.size THEN t.entries[i]
                                      ELSE UnusedEntry],
                      !.size = size]
    ELSE t

(* The assertions of fd_table_attach() before it writes. *)
AttachPre(t, fd) == t.size > fd /\ t.entries[fd].object = NULL

(* fd_table_attach() *)
fd_table_attach(t, fd, fo, rights_base, rights_inheriting) ==
    [t EXCEPT !.entries[fd] = fd_entry(fo, rights_base, rights_inheriting),
              !.used = t.used + 1]

(* The last assertion of fd_table_attach(), on the table it leaves. *)
AttachPost(t) == t.size >= t.used * 2

(* The assertions of fd_table_detach(). *)
DetachPre(t, fd) == t.size > fd /\ t.entries[fd].object # NULL /\ t.used > 0

(* fd_table_detach() that leaves ft->used as it was. *)
fd_table_detach_counting(t, fd) ==
    [t EXCEPT !.entries[fd] = UnusedEntry]

(* fd_table_detach().  The code clears .object only; the rights it leaves  *)
(* behind are never read again (every reader tests .object first, and      *)
(* fd_table_attach() overwrites them), so the model does not keep them.    *)
fd_table_detach(t, fd) ==
    [t EXCEPT !.entries[fd] = UnusedEntry, !.used = t.used - 1]

(* fd_table_unused(): the slots random_uniform() can end the loop on. *)
fd_table_unused(t) == {fd \in 0..(t.size - 1) : t.entries[fd].object = NULL}


-----------------------------------------------------------------------------
(* struct fd_object and its reference count.                               *)

(* An object's record holds its members and, beside them, what the host   *)
(* has open for it: fd_open, the descriptor number; dir_open, the DIR      *)
(* stream directory.handle points to; ebadf, set once a host call was      *)
(* made on a descriptor or stream that was no longer open.  handle is NULL *)
(* or the address of the DIR, whose position in the directory is pos;     *)
(* directory.offset is read only after handle has been set, and so is      *)
(* modelled from the start.                                                *)
FreedObject ==
    [alive |-> FALSE, refcount |-> 0, type |-> "none", number |-> "none",
     handle |-> NULL, offset |-> 0, fd_open |-> FALSE, dir_open |-> FALSE,
     pos |-> 0, ebadf |-> FALSE]

(* The address malloc() hands to fd_object_new(): addresses are only ever  *)
(* compared for equality, so the lowest free one stands for any.           *)
FreeIds(os) == {o \in ObjIds : ~os[o].alive}
NewId(os) == CHOOSE o \in FreeIds(os) : \A p \in FreeIds(os) : o <= p

(* fd_object_new(): reference count 1; the caller sets number next. *)
fd_object_new(os, o, type) ==
    [os EXCEPT ![o] = [FreedObject EXCEPT !.alive = TRUE, !.refcount = 1,
                                          !.type = type, !.number = "unset"]]

(* fo->number = in: the host descriptor, named by what it is open on. *)
fd_object_set_number(os, o, number) ==
    [os EXCEPT ![o].number = number, ![o].fd_open = TRUE]

fd_number(os, o) == os[o].number

(* refcount_acquire() on the object at address o. *)
refcount_acquire(os, o) == [os EXCEPT ![o].refcount = os[o].refcount + 1]

(* close(fd_number(fo)) and closedir(fo->directory.handle), as the host    *)
(* carries them out: closedir() closes the stream and its descriptor.      *)
close(fo) ==
    IF fo.fd_open THEN [fo EXCEPT !.fd_open = FALSE]
    ELSE [fo EXCEPT !.ebadf = TRUE]

closedir(fo) ==
    IF fo.dir_open THEN [fo EXCEPT !.dir_open = FALSE, !.fd_open = FALSE]
    ELSE [fo EXCEPT !.ebadf = TRUE]

(* free(fo): the members are gone, what the host has open stays so. *)
free(fo) ==
    [FreedObject EXCEPT !.fd_open = fo.fd_open, !.dir_open = fo.dir_open,
                        !.ebadf = fo.ebadf]

(* fd_object_release() that closes the descriptor whatever the type. *)
fd_object_release_closing_number(os, o) ==
    IF os[o].refcount = 1 THEN [os EXCEPT ![o] = free(close(os[o]))]
    ELSE [os EXCEPT ![o].refcount = os[o].refcount - 1]

(* fd_object_release(): on the last reference the switch on fo->type       *)
(* closes the directory stream, or the descriptor, and the object is       *)
(* freed.                                                                  *)
fd_object_release(os, o) ==
    IF os[o].refcount = 1
    THEN [os EXCEPT ![o] =
             free(IF os[o].type = "DIRECTORY"
                  THEN (IF os[o].handle = NULL THEN close(os[o])
                        ELSE closedir(os[o]))
                  ELSE close(os[o]))]
    ELSE [os EXCEPT ![o].refcount = os[o].refcount - 1]

(* fd_object_get_locked() that hands out the object without a reference. *)
fd_object_get_locked_borrowing(os, t, fd) == os

(* fd_object_get_locked() past the lookup: the reference it takes. *)
fd_object_get_locked(os, t, fd) == refcount_acquire(os, t.entries[fd].object)

-----------------------------------------------------------------------------
(* Threads.                                                                *)

Idle == [pc |-> "idle", fo |-> NULL, rel |-> <<>>]

(* What a step did: the system call, its arguments, its return value and   *)
(* the descriptors it returned.  Steps are recorded in the runs that start *)
(* with recording on; the other runs keep last = Unrecorded.               *)
StepRecord(op, fd, fd2, base, inh, err, out, out2) ==
    [op |-> op, fd |-> fd, fd2 |-> fd2, base |-> base, inh |-> inh,
     err |-> err, out |-> out, out2 |-> out2]

Unrecorded == StepRecord("unrecorded", -1, -1, {}, {}, OK, -1, -1)
NoStep == StepRecord("init", -1, -1, {}, {}, OK, -1, -1)

Step(t, op, fd, fd2, base, inh, err, out, out2) ==
    IF last = Unrecorded THEN Unrecorded
    ELSE StepRecord(op, fd, fd2, base, inh, err, out, out2)

Running(t) == fault = "none" /\ th[t].pc = "idle"

(* The process dies: abort() from a failed assert(), or a signal. *)
Die(how, step) ==
    /\ fault' = how
    /\ last' = step
    /\ UNCHANGED <<ft, objs, th, pa>>

(* A system call returns err and leaves everything as it was. *)
Return(step) ==
    /\ last' = step
    /\ UNCHANGED <<ft, objs, th, fault, pa>>

(* fd_object_release(), called by thread t after it has dropped the lock,  *)
(* on the next object it still has to release.                             *)
ReleaseStep(t) ==
    /\ fault = "none"
    /\ th[t].pc = "release"
    /\ LET o == Head(th[t].rel)
           rest == Tail(th[t].rel)
       IN /\ objs' = fd_object_release(objs, o)
          /\ th' = [th EXCEPT ![t] = IF rest = <<>> THEN Idle
                                     ELSE [@ EXCEPT !.rel = rest]]
    /\ last' = Step(t, "fd_object_release", -1, -1, {}, {}, OK, -1, -1)
    /\ UNCHANGED <<ft, fault, pa>>

-----------------------------------------------------------------------------
(* Inserting system calls.                                                 *)

(* Masks the guest passes to sys_fd_stat_put() in the table's runs. *)
RestrictBase == {{"FD_READ"}, {"FD_READ", "FD_WRITE"}}
RestrictInheriting == {{}, {"FD_READ"}}

(* What a read through a pointer into the array realloc() has moved can    *)
(* give: the entry as it was, or any entry at all (any address, and of     *)
(* the masks the two extremes).                                            *)
StaleEntries(e) ==
    {e} \cup {fd_entry(o, r, r) : o \in {NULL} \cup ObjIds, r \in {{}, RIGHTS_ALL}}

(* The table as fd_table_attach() leaves it; its closing assertion aborts   *)
(* the process, after used has been incremented.                           *)
Attached(nt) ==
    /\ ft' = nt
    /\ fault' = IF AttachPost(nt) THEN fault ELSE "abort"

(* fd_table_insert(), reached with a new object of the given type:         *)
(* fd_table_grow(ft, 0, 1), fd_table_unused(), fd_table_attach(), all      *)
(* under the lock; on realloc() failure the object is released after the   *)
(* lock is dropped.                                                        *)
fd_table_insert(t, op, type, number, rights_base, rights_inheriting) ==
    /\ FreeIds(objs) # {}
    /\ ft.used + 1 <= MaxUsed
    /\ LET fo == NewId(objs)
           os == fd_object_set_number(fd_object_new(objs, fo, type), fo, number)
       IN \/ /\ NeedsGrow(ft, 0, 1)
             /\ objs' = os
             /\ th' = [th EXCEPT ![t] = [pc |-> "release", fo |-> NULL,
                                         rel |-> <<fo>>]]
             /\ last' = Step(t, op, -1, -1, rights_base, rights_inheriting,
                             CLOUDABI_ENOMEM, -1, -1)
             /\ UNCHANGED <<ft, fault, pa>>
          \/ \E out \in fd_table_unused(fd_table_grow(ft, 0, 1)) :
                /\ objs' = os
                /\ Attached(fd_table_attach(fd_table_grow(ft, 0, 1), out, fo,
                                            rights_base, rights_inheriting))
                /\ last' = Step(t, op, -1, -1, rights_base, rights_inheriting,
                                OK, out, -1)
                /\ th' = [th EXCEPT ![t] = Idle]
                /\ UNCHANGED pa

(* sys_fd_create1(CLOUDABI_FILETYPE_SHARED_MEMORY) *)
sys_fd_create1(t) ==
    /\ Running(t)
    /\ fd_table_insert(t, "fd_create1", "SHARED_MEMORY", "shm",
                       RIGHTS_SHARED_MEMORY_BASE, RIGHTS_SHARED_MEMORY_INHERITING)

(* sys_fd_create2() -> fd_create_socketpair() -> fd_table_insert_fdpair() *)
sys_fd_create2(t) ==
    /\ Running(t)
    /\ Cardinality(FreeIds(objs)) >= 2
    /\ ft.used + 2 <= MaxUsed
    /\ LET fo1 == NewId(objs)
           os1 == fd_object_set_number(
                      fd_object_new(objs, fo1, "SOCKET_STREAM"), fo1, "socket")
           fo2 == NewId(os1)
           os2 == fd_object_set_number(
                      fd_object_new(os1, fo2, "SOCKET_STREAM"), fo2, "socket")
           grown == fd_table_grow(ft, 0, 2)
       IN \/ /\ NeedsGrow(ft, 0, 2)
             /\ objs' = os2
             /\ th' = [th EXCEPT ![t] = [pc |-> "release", fo |-> NULL,
                                         rel |-> <<fo1, fo2>>]]
             /\ last' = Step(t, "fd_create2", -1, -1, {}, {},
                             CLOUDABI_ENOMEM, -1, -1)
             /\ UNCHANGED <<ft, fault, pa>>
          \/ \E out1 \in fd_table_unused(grown) :
                LET one == fd_table_attach(grown, out1, fo1, RIGHTS_SOCKET_BASE,
                                           RIGHTS_SOCKET_INHERITING)
                IN IF ~AttachPost(one)
                   THEN /\ objs' = os2
                        /\ Attached(one)
                        /\ last' = Step(t, "fd_create2", -1, -1, {}, {},
                                        "abort", out1, -1)
                        /\ UNCHANGED <<th, pa>>
                   ELSE \E out2 \in fd_table_unused(one) :
                      /\ objs' = os2
                      /\ Attached(fd_table_attach(one, out2, fo2,
                                    RIGHTS_SOCKET_BASE, RIGHTS_SOCKET_INHERITING))
                      /\ last' = Step(t, "fd_create2", -1, -1, {}, {}, OK,
                                      out1, out2)
                      /\ UNCHANGED <<th, pa>>

(* fd_table_insert_existing(ft, in, out): the host descriptor out is a     *)
(* directory, which fd_determine_type_rights() gives the directory maxima. *)
fd_table_insert_existing(t, in) ==
    /\ Running(t)
    /\ FreeIds(objs) # {}
    /\ ft.used + 1 <= MaxUsed
    /\ LET fo == NewId(objs)
           os == fd_object_set_number(fd_object_new(objs, fo, "DIRECTORY"),
                                      fo, HandleDir)
           grown == fd_table_grow(ft, in, 1)
           step(err) == Step(t, "fd_table_insert_existing", in, -1,
                             RIGHTS_DIRECTORY_BASE, RIGHTS_DIRECTORY_INHERITING,
                             err, -1, -1)
       IN \/ /\ NeedsGrow(ft, in, 1)
             /\ objs' = os
             /\ th' = [th EXCEPT ![t] = [pc |-> "release", fo |-> NULL,
                                         rel |-> <<fo>>]]
             /\ last' = step(CLOUDABI_ENOMEM)
             /\ UNCHANGED <<ft, fault, pa>>
          \/ /\ ~AttachPre(grown, in)
             /\ Die("abort", step("abort"))
          \/ /\ AttachPre(grown, in)
             /\ objs' = os
             /\ Attached(fd_table_attach(grown, in, fo, RIGHTS_DIRECTORY_BASE,
                                         RIGHTS_DIRECTORY_INHERITING))
             /\ last' = step(OK)
             /\ UNCHANGED <<th, pa>>

(* sys_fd_dup(): fe is looked up before fd_table_grow() and read after it. *)
sys_fd_dup(t, from) ==
    /\ Running(t)
    /\ ft.used + 1 <= MaxUsed \/ fd_table_get_entry(ft, from, {}, {}) # OK
    /\ LET error == fd_table_get_entry(ft, from, {}, {})
           grown == fd_table_grow(ft, 0, 1)
           step(err, out) == Step(t, "fd_dup", from, -1, {}, {}, err, out, -1)
       IN IF error # OK THEN Return(step(error, -1))
          ELSE \/ /\ NeedsGrow(ft, 0, 1)
                  /\ Return(step(CLOUDABI_ENOMEM, -1))
               \/ \E out \in fd_table_unused(grown) :
                  \E fe \in IF NeedsGrow(ft, 0, 1)
                            THEN StaleEntries(ft.entries[from])
                            ELSE {ft.entries[from]} :
                     IF fe.object = NULL
                     THEN Die("SIGSEGV", step("SIGSEGV", -1))
                     ELSE IF ~objs[fe.object].alive
                     THEN Die("freed-object", step("freed-object", -1))
                     ELSE /\ objs' = refcount_acquire(objs, fe.object)
                          /\ Attached(fd_table_attach(grown, out, fe.object,
                                         fe.rights_base, fe.rights_inheriting))
                          /\ last' = step(OK, out)
                          /\ UNCHANGED <<th, pa>>

-----------------------------------------------------------------------------
(* System calls on existing descriptors.                                   *)

(* sys_fd_close(): detach under the lock, release after it. *)
sys_fd_close(t, fd) ==
    /\ Running(t)
    /\ LET error == fd_table_get_entry(ft, fd, {}, {})
           step(err) == Step(t, "fd_close", fd, -1, {}, {}, err, -1, -1)
       IN IF error # OK THEN Return(step(error))
          ELSE IF ~DetachPre(ft, fd) THEN Die("abort", step("abort"))
          ELSE /\ ft' = fd_table_detach(ft, fd)
               /\ th' = [th EXCEPT ![t] = [pc |-> "release", fo |-> NULL,
                                           rel |-> <<ft.entries[fd].object>>]]
               /\ last' = step(OK)
               /\ UNCHANGED <<objs, fault, pa>>

(* sys_fd_replace() that attaches from's object under the rights slot to  *)
(* had. *)
sys_fd_replace_keeping_rights(t, from, to) ==
    /\ Running(t)
    /\ LET error1 == fd_table_get_entry(ft, from, {}, {})
           error2 == fd_table_get_entry(ft, to, {}, {})
           step(err) == Step(t, "fd_replace", from, to, {}, {}, err, -1, -1)
       IN IF error1 # OK THEN Return(step(error1))
          ELSE IF error2 # OK THEN Return(step(error2))
          ELSE LET detached == fd_table_detach(ft, to)
                   fe_from == ft.entries[from]
               IN /\ objs' = refcount_acquire(objs, fe_from.object)
                  /\ Attached(fd_table_attach(detached, to, fe_from.object,
                                 ft.entries[to].rights_base,
                                 ft.entries[to].rights_inheriting))
                  /\ th' = [th EXCEPT ![t] =
                               [pc |-> "release", fo |-> NULL,
                                rel |-> <<ft.entries[to].object>>]]
                  /\ last' = step(OK)
                  /\ UNCHANGED pa

(* sys_fd_replace(): fe_from is read after fd_table_detach(ft, to). *)
sys_fd_replace(t, from, to) ==
    /\ Running(t)
    /\ LET error1 == fd_table_get_entry(ft, from, {}, {})
           error2 == fd_table_get_entry(ft, to, {}, {})
           step(err) == Step(t, "fd_replace", from, to, {}, {}, err, -1, -1)
       IN IF error1 # OK THEN Return(step(error1))
          ELSE IF error2 # OK THEN Return(step(error2))
          ELSE IF ~DetachPre(ft, to) THEN Die("abort", step("abort"))
          ELSE LET detached == fd_table_detach(ft, to)
                   fe_from == detached.entries[from]
               IN IF fe_from.object = NULL
                  THEN /\ ft' = detached
                       /\ fault' = "SIGSEGV"
                       /\ last' = step("SIGSEGV")
                       /\ UNCHANGED <<objs, th, pa>>
                  ELSE /\ objs' = refcount_acquire(objs, fe_from.object)
                       /\ Attached(fd_table_attach(detached, to, fe_from.object,
                                      fe_from.rights_base,
                                      fe_from.rights_inheriting))
                       /\ th' = [th EXCEPT ![t] =
                                    [pc |-> "release", fo |-> NULL,
                                     rel |-> <<ft.entries[to].object>>]]
                       /\ last' = step(OK)
                       /\ UNCHANGED pa

(* The CLOUDABI_FDSTAT_RIGHTS case storing rights_base only. *)
RestrictEntry_base_only(t, fd, base, inheriting) ==
    [t EXCEPT !.entries[fd].rights_base = base]

(* The table after the CLOUDABI_FDSTAT_RIGHTS case of sys_fd_stat_put()    *)
(* has found the entry. *)
RestrictEntry(t, fd, base, inheriting) ==
    [t EXCEPT !.entries[fd].rights_base = base,
              !.entries[fd].rights_inheriting = inheriting]

(* sys_fd_stat_put() that looks the entry up without the new masks. *)
sys_fd_stat_put_unchecked(t, fd, base, inheriting) ==
    /\ Running(t)
    /\ LET error == fd_table_get_entry(ft, fd, {}, {})
           step(err) == Step(t, "fd_stat_put", fd, -1, base, inheriting,
                             err, -1, -1)
       IN IF error # OK THEN Return(step(error))
          ELSE /\ ft' = RestrictEntry(ft, fd, base, inheriting)
               /\ last' = step(OK)
               /\ UNCHANGED <<objs, th, fault, pa>>

(* sys_fd_stat_put(fd, buf, CLOUDABI_FDSTAT_RIGHTS) *)
sys_fd_stat_put(t, fd, base, inheriting) ==
    /\ Running(t)
    /\ LET error == fd_table_get_entry(ft, fd, base, inheriting)
           step(err) == Step(t, "fd_stat_put", fd, -1, base, inheriting,
                             err, -1, -1)
       IN IF error # OK THEN Return(step(error))
          ELSE /\ ft' = RestrictEntry(ft, fd, base, inheriting)
               /\ last' = step(OK)
               /\ UNCHANGED <<objs, th, fault, pa>>

(* fd_object_get(), as the first half of a system call op that needs the   *)
(* rights (rights_base, rights_inheriting) on fd.                          *)
fd_object_get(t, op, fd, rights_base, rights_inheriting) ==
    /\ Running(t)
    /\ LET error == fd_table_get_entry(ft, fd, rights_base, rights_inheriting)
           step(err) == Step(t, op, fd, -1, rights_base, rights_inheriting,
                             err, -1, -1)
       IN IF error # OK THEN Return(step(error))
          ELSE /\ objs' = fd_object_get_locked(objs, ft, fd)
               /\ th' = [th EXCEPT ![t] = [pc |-> "held",
                                           fo |-> ft.entries[fd].object,
                                           rel |-> <<>>]]
               /\ last' = step(OK)
               /\ UNCHANGED <<ft, fault, pa>>

(* sys_fd_read(): fd_object_get(&fo, fd, CLOUDABI_RIGHT_FD_READ, 0) *)
sys_fd_read(t, fd) == fd_object_get(t, "fd_read", fd, {"FD_READ"}, {})

(* sys_fd_write(): fd_object_get(&fo, fd, CLOUDABI_RIGHT_FD_WRITE, 0) *)
sys_fd_write(t, fd) == fd_object_get(t, "fd_write", fd, {"FD_WRITE"}, {})

(* The second half of sys_fd_read()/sys_fd_write(): readv()/writev() on    *)
(* fd_number(fo), then fd_object_release(fo).  The host call touches an    *)
(* object that must still be there.                                        *)
HostCallAndRelease(t) ==
    /\ fault = "none"
    /\ th[t].pc = "held"
    /\ IF ~objs[th[t].fo].alive
       THEN Die("use-after-free",
                Step(t, "host_call", -1, -1, {}, {}, "use-after-free", -1, -1))
       ELSE /\ objs' = fd_object_release(objs, th[t].fo)
            /\ th' = [th EXCEPT ![t] = Idle]
            /\ last' = Step(t, "host_call", -1, -1, {}, {}, OK, -1, -1)
            /\ UNCHANGED <<ft, fault, pa>>

-----------------------------------------------------------------------------
(* The table's runs: the threads of one process on one table.              *)

NoPath == [pc |-> "off"]

InitTable ==
    /\ ft = fd_table_init
    /\ objs = [o \in ObjIds |-> FreedObject]
    /\ th = [t \in Threads |-> Idle]
    /\ last = Unrecorded
    /\ fault = "none"
    /\ pa = NoPath

TableStep(t) ==
        \/ sys_fd_create1(t)
        \/ sys_fd_create2(t)
        \/ \E in \in FdArgs : fd_table_insert_existing(t, in)
        \/ \E from \in FdArgs : sys_fd_dup(t, from)
        \/ \E fd \in FdArgs : sys_fd_close(t, fd)
        \/ \E from, to \in FdArgs : sys_fd_replace(t, from, to)
        \/ \E fd \in FdArgs, base \in RestrictBase, inh \in RestrictInheriting :
              sys_fd_stat_put(t, fd, base, inh)
        \/ \E fd \in FdArgs : sys_fd_read(t, fd)
        \/ \E fd \in FdArgs : sys_fd_write(t, fd)
        \/ HostCallAndRelease(t)
        \/ ReleaseStep(t)

NextTable == \E t \in Threads : TableStep(t)

SpecTable == InitTable /\ [][NextTable]_vars

(* The same system calls with every step recorded, which multiplies the    *)
(* states.  One thread issues them: a locked section is atomic, so the     *)
(* tables that threads taking turns produce are the tables of the same     *)
(* calls in sequence.                                                      *)
InitCalls ==
    /\ ft = fd_table_init
    /\ objs = [o \in ObjIds |-> FreedObject]
    /\ th = [t \in Threads |-> Idle]
    /\ last = NoStep
    /\ fault = "none"
    /\ pa = NoPath

NextCalls == TableStep("t1")

SpecCalls == InitCalls /\ [][NextCalls]_vars

-----------------------------------------------------------------------------
(* Properties of the table.                                                *)

Occupied(t, fd) == fd < t.size /\ t.entries[fd].object # NULL
Slots(t) == 0..(t.size - 1)

(* C3: a reference a thread obtained through fd_object_get() stays usable  *)
(* until that thread releases it, whatever the other threads do to the     *)
(* slot: while it is held the object is not torn down (its descriptor is   *)
(* not closed, its memory not freed) and its count is at least one.        *)
C3_HeldReferenceStaysValid ==
    /\ fault # "use-after-free"
    /\ \A t \in Threads :
          th[t].pc = "held" =>
             objs[th[t].fo].alive /\ objs[th[t].fo].refcount >= 1

(* C3's case: t1 holds a reference to an object that no slot holds any     *)
(* more, after the thread that closed the slot finished its release.       *)
C3_Witness ==
    /\ th["t1"].pc = "held"
    /\ th["t2"].pc = "idle"
    /\ ft.used = 0
    /\ ft.size > 0
    /\ objs[th["t1"].fo].alive

(* C4: used <= size/2 after every mutation of the table. *)
C4_HalfEmpty == ft.used <= ft.size \div 2

(* C4's case: the table has grown and is exactly half full. *)
C4_Witness == ft.size = 4 /\ ft.used = 2

C6_Restrict ==
    [][last'.op = "fd_stat_put" /\ Occupied(ft, last'.fd) =>
         LET fd == last'.fd
             fe == ft.entries[fd]
         IN IF /\ last'.base \subseteq fe.rights_base
               /\ last'.inh \subseteq fe.rights_inheriting
            THEN /\ last'.err = OK
                 /\ ft'.entries[fd] = fd_entry(fe.object, last'.base, last'.inh)
                 /\ fd_table_get_entry(ft', fd, last'.base, last'.inh) = OK
                 /\ \A g \in Slots(ft) \ {fd} : ft'.entries[g] = ft.entries[g]
            ELSE /\ last'.err = CLOUDABI_ENOTCAPABLE
                 /\ ft' = ft]_vars

(* C6's case: a slot narrowed to {FD_READ} refused to be widened again. *)
C6_Witness ==
    /\ last.op = "fd_stat_put"
    /\ last.err = CLOUDABI_ENOTCAPABLE
    /\ Occupied(ft, last.fd)
    /\ ft.entries[last.fd].rights_base = {"FD_READ"}
    /\ last.base = {"FD_READ", "FD_WRITE"}

(* C7: from its insertion until it is closed or is the target of replace,  *)
(* a descriptor's two masks never gain a bit; and a system call that needs *)
(* a right the descriptor does not have fails with not-capable.            *)
C7_RightsNeverWiden ==
    [][/\ \A fd \in Slots(ft) :
             (/\ Occupied(ft, fd)
              /\ Occupied(ft', fd)
              /\ ~(last'.op = "fd_replace" /\ last'.fd2 = fd))
             => /\ ft'.entries[fd].rights_base \subseteq ft.entries[fd].rights_base
                /\ ft'.entries[fd].rights_inheriting
                      \subseteq ft.entries[fd].rights_inheriting
       /\ (/\ last'.op = "fd_write"
           /\ Occupied(ft, last'.fd)
           /\ "FD_WRITE" \notin ft.entries[last'.fd].rights_base)
             => last'.err = CLOUDABI_ENOTCAPABLE /\ th' = th
       /\ (/\ last'.op = "fd_read"
           /\ Occupied(ft, last'.fd)
           /\ "FD_READ" \notin ft.entries[last'.fd].rights_base)
             => last'.err = CLOUDABI_ENOTCAPABLE /\ th' = th]_vars

(* C7's case: write on a descriptor narrowed to {FD_READ} was refused. *)
C7_Witness ==
    /\ last.op = "fd_write"
    /\ last.err = CLOUDABI_ENOTCAPABLE
    /\ ft.entries[last.fd].rights_base = {"FD_READ"}

(* C10: get fails with bad-fd when fd >= size or the slot is empty, before *)
(* it looks at the rights; fails with not-capable when a needed bit is     *)
(* missing from either mask; succeeds otherwise; and leaves the table as   *)
(* it is.  Checked on the system calls that start with one lookup.         *)
C10_GetEntry ==
    [][last'.op \in {"fd_read", "fd_write", "fd_stat_put", "fd_close", "fd_dup"} =>
         LET fd == last'.fd
             bad == fd >= ft.size \/ ft.entries[fd].object = NULL
             lacking == \/ ~(last'.base \subseteq ft.entries[fd].rights_base)
                        \/ ~(last'.inh \subseteq ft.entries[fd].rights_inheriting)
         IN /\ bad => last'.err = CLOUDABI_EBADF /\ ft' = ft
            /\ (~bad /\ lacking) => last'.err = CLOUDABI_ENOTCAPABLE /\ ft' = ft
            /\ (~bad /\ ~lacking) =>
                  last'.err \notin {CLOUDABI_EBADF, CLOUDABI_ENOTCAPABLE}
            /\ last'.op \in {"fd_read", "fd_write"} => ft' = ft]_vars

(* C10's case: a lookup whose base mask is there and whose inheriting mask *)
(* is not was refused with not-capable.                                    *)
C10_Witness ==
    /\ last.op = "fd_stat_put"
    /\ last.err = CLOUDABI_ENOTCAPABLE
    /\ Occupied(ft, last.fd)
    /\ last.base \subseteq ft.entries[last.fd].rights_base
    /\ ~(last.inh \subseteq ft.entries[last.fd].rights_inheriting)


-----------------------------------------------------------------------------
(* Strings: sequences of characters; the terminating NUL is the end of the *)
(* sequence.                                                               *)

MaxPathLen == 4   \* length of the pathnames passed to path_get()

Chars == {"/", ".", "a", "s", "b", "c", "l", "m"}
Paths == UNION {[1..n -> Chars] : n \in 0..MaxPathLen}

strcspn(s, reject) ==
    LET stops == {i \in 1..Len(s) : s[i] \in reject}
    IN IF stops = {} THEN Len(s)
       ELSE (CHOOSE i \in stops : \A j \in stops : i <= j) - 1

(* strspn() that stops after one character. *)
strspn_one(s, accept) == IF s # <<>> /\ s[1] \in accept THEN 1 ELSE 0

strspn(s, accept) ==
    LET stops == {i \in 1..Len(s) : s[i] \notin accept}
    IN IF stops = {} THEN Len(s)
       ELSE (CHOOSE i \in stops : \A j \in stops : i <= j) - 1

(* s + n *)
Skip(s, n) == SubSeq(s, n + 1, Len(s))

-----------------------------------------------------------------------------
(* The host: a directory tree that is not changed while the process runs.  *)
(*   /            "H"                                                      *)
(*   /o           "O"   a directory outside the handle's                   *)
(*   /r           "R"   the directory the handle is open on                *)
(*   /r/a         "A"                                                      *)
(*   /r/a/d       "D"                                                      *)
(*   /r/s -> a          /r/b -> /o       /r/c -> ../o                      *)
(*   /r/l -> l          /r/m -> m/a                                        *)
(*   /r/a/s -> ../a     /r/a/c -> ../../o                                  *)
(*   /r/f         a regular file         /r/p    a FIFO                    *)
(*   /r/k         a socket                                                 *)
(*   /r/x         "1"   /r/x/x  "2"   and so on, NestDepth directories     *)
(*                      one in the other                                   *)
(*   w -> x/w           in /r and in each of these                         *)
(*   /r/v -> v/a                                                           *)
(* A host descriptor on a directory is named by the directory.             *)

NestDepth == 130

(* The nested directories, outermost first. *)
Nested == [k \in 1..NestDepth |-> ToString(k)]

(* How deep below /r directory d is nested: 0 for /r itself. *)
Depth(d) ==
    IF d = "R" THEN 0 ELSE CHOOSE k \in 1..NestDepth : Nested[k] = d

IsNested(d) == \E k \in 1..NestDepth : Nested[k] = d

HostDirs == {"H", "O", "R", "A", "D"} \cup {Nested[k] : k \in 1..NestDepth}
Parent ==
    [d \in HostDirs |->
        IF IsNested(d) THEN IF Depth(d) = 1 THEN "R" ELSE Nested[Depth(d) - 1]
        ELSE IF d = "D" THEN "A" ELSE IF d = "A" THEN "R" ELSE "H"]

IsDir(n) == [kind |-> "dir", node |-> n, target |-> <<>>]
IsLink(s) == [kind |-> "lnk", node |-> "none", target |-> s]
IsOther(kind) == [kind |-> kind, node |-> "none", target |-> <<>>]
NoEntry == [kind |-> "none", node |-> "none", target |-> <<>>]

(* A chain of symbolic links: the name made of r letters q is a link to    *)
(* the name made of r - 1 of them, and the last one to the regular file f, *)
(* so that r links are followed from it.                                   *)
IsChain(name) == name # <<>> /\ \A i \in 1..Len(name) : name[i] = "q"

ChainTarget(name) == IF Len(name) = 1 THEN <<"f">> ELSE Tail(name)

(* The directory entry the host finds for one pathname component. *)
dirent(d, name) ==
    IF name = <<".">> THEN IsDir(d)
    ELSE IF name = <<".", ".">> THEN IsDir(Parent[d])
    ELSE CASE d = "H" /\ name = <<"o">> -> IsDir("O")
           [] d = "H" /\ name = <<"r">> -> IsDir("R")
           [] d = "R" /\ name = <<"a">> -> IsDir("A")
           [] d = "R" /\ name = <<"s">> -> IsLink(<<"a">>)
           [] d = "R" /\ name = <<"b">> -> IsLink(<<"/", "o">>)
           [] d = "R" /\ name = <<"c">> -> IsLink(<<".", ".", "/", "o">>)
           [] d = "R" /\ name = <<"l">> -> IsLink(<<"l">>)
           [] d = "R" /\ name = <<"m">> -> IsLink(<<"m", "/", "a">>)
           [] d = "R" /\ name = <<"f">> -> IsOther("reg")
           [] d = "R" /\ name = <<"p">> -> IsOther("fifo")
           [] d = "R" /\ name = <<"k">> -> IsOther("sock")
           [] d = "R" /\ IsChain(name) -> IsLink(ChainTarget(name))
           [] d = "A" /\ name = <<"d">> -> IsDir("D")
           [] d = "R" /\ name = <<"v">> -> IsLink(<<"v", "/", "a">>)
           [] name = <<"w">> /\ (d = "R" \/ IsNested(d)) ->
                  IsLink(<<"x", "/", "w">>)
           [] name = <<"x">> /\ (d = "R" \/ IsNested(d))
                             /\ Depth(d) < NestDepth -> IsDir(Nested[Depth(d) + 1])
           [] d = "A" /\ name = <<"s">> -> IsLink(<<".", ".", "/", "a">>)
           [] d = "A" /\ name = <<"c">> ->
                  IsLink(<<".", ".", "/", ".", ".", "/", "o">>)
           [] OTHER -> NoEntry

(* Results of host calls: a value, or -1 and errno. *)
HostOk(v) == [ok |-> TRUE, value |-> v, errno |-> "0"]
HostErr(e) == [ok |-> FALSE, value |-> "none", errno |-> e]

(* The host's own walk of a pathname from directory d, symbolic links      *)
(* followed, at most fuel of them: the directory reached, or "none".       *)
RECURSIVE HostWalk(_, _, _)
HostWalk(d, s, fuel) ==
    LET from == IF s # <<>> /\ Head(s) = "/" THEN "H" ELSE d
        t == Skip(s, strspn(s, {"/"}))
        n == strcspn(t, {"/"})
        e == dirent(from, SubSeq(t, 1, n))
    IN IF t = <<>> THEN from
       ELSE IF e.kind = "dir" THEN HostWalk(e.node, Skip(t, n), fuel)
       ELSE IF e.kind = "lnk" /\ fuel > 0
       THEN LET to == HostWalk(from, e.target, fuel - 1)
            IN IF to = "none" THEN "none" ELSE HostWalk(to, Skip(t, n), fuel - 1)
       ELSE "none"

(* openat() that follows a symbolic link in the last component. *)
openat_directory_follow(d, file) ==
    LET to == HostWalk(d, file, 2)
    IN IF to = "none" THEN {HostErr("host.ENOENT")} ELSE {HostOk(to)}

(* openat(d, file, O_DIRECTORY | O_NOFOLLOW), file without a slash: the    *)
(* results hosts give.  On a symbolic link FreeBSD fails with EMLINK, and  *)
(* Linux with ELOOP or, as O_DIRECTORY is set, ENOTDIR.                    *)
openat_directory_nofollow(d, file) ==
    LET e == dirent(d, file)
    IN CASE e.kind = "dir" -> {HostOk(e.node)}
         [] e.kind = "lnk" ->
                {HostErr(x) : x \in {"host.ELOOP", "host.EMLINK", "host.ENOTDIR"}}
         [] e.kind = "none" -> {HostErr("host.ENOENT")}
         [] OTHER -> {HostErr("host.ENOTDIR")}

(* readlinkat_dup(): the contents of the link, or NULL and errno; its      *)
(* realloc() can fail before the host is asked.                            *)
readlinkat_dup(d, file) ==
    LET e == dirent(d, file)
    IN {HostErr("host.ENOMEM")} \cup
       (CASE e.kind = "lnk" -> {HostOk(e.target)}
          [] e.kind = "none" -> {HostErr("host.ENOENT")}
          [] OTHER -> {HostErr("host.EINVAL")})

(* convert_errno(): the table lookup, on the host's codes met here. *)
convert_errno(errno) ==
    CASE errno = "host.ENOENT" -> "ENOENT"
      [] errno = "host.ENOTDIR" -> "ENOTDIR"
      [] errno = "host.ELOOP" -> "ELOOP"
      [] errno = "host.EMLINK" -> "EMLINK"
      [] errno = "host.EINVAL" -> CLOUDABI_EINVAL
      [] errno = "host.ENOMEM" -> CLOUDABI_ENOMEM
      [] errno = "host.EISDIR" -> "EISDIR"
      [] errno = "host.EEXIST" -> "EEXIST"
      [] errno = "host.ENXIO" -> "ENXIO"
      [] errno = "host.EPIPE" -> "EPIPE"
      [] errno = "host.EINTR" -> "EINTR"
      [] OTHER -> "ENOSYS"

-----------------------------------------------------------------------------
(* path_get(), the emulated resolver (CONFIG_HAS_CAP_ENTER unset).         *)
(* pa holds the call's locals and, once it has returned, its result:       *)
(*   fds, paths   the two stacks; fds[1] is the C fds[0], curfd is         *)
(*                Len(fds) - 1 and curpath is Len(paths) - 1; paths holds  *)
(*                what is left to process of each string                   *)
(*   file         the component the last iteration extracted               *)
(*   fd, path, follow   struct path_access, filled in on success           *)

FdsSize == 128          \* sizeof(fds) / sizeof(fds[0])
PathsSize == 32         \* sizeof(paths) / sizeof(paths[0])
MaxExpansions == 128    \* ++expansions == 128

(* strcmp(file, "..") that never finds them equal. *)
IsParent_never(file) == FALSE

(* strcmp(file, "..") == 0 *)
IsParent(file) == file = <<".", ".">>

Top(stack) == stack[Len(stack)]
Pop(stack) == SubSeq(stack, 1, Len(stack) - 1)

(* What a call has done with the strings it allocated and the directory   *)
(* descriptors it opened, kept by the runs that look at it: bufs[i] is how *)
(* often allocation i was passed to free(), start the allocation behind    *)
(* each paths_start[], stray the calls of free() on a pointer that no      *)
(* allocation returned; dirs[i] is how often the i-th descriptor openat()  *)
(* gave was closed, open the descriptor behind each fds[1..curfd], own the *)
(* calls of close() on fds[0].  The first allocation is path.              *)
PathHeap ==
    [bufs |-> <<0>>, start |-> <<1>>, stray |-> 0, dirs |-> <<>>, open |-> <<>>,
     own |-> 0]

Counted(p) == "heap" \in DOMAIN p

(* free(paths_start[l]) for the levels l of L (level 1 is paths_start[0]). *)
HeapFree(h, L) ==
    [h EXCEPT !.bufs = [i \in DOMAIN h.bufs |->
                          h.bufs[i] + Cardinality({l \in L : h.start[l] = i})]]

(* close(fds[l]) for the levels l of L (level 1 is fds[1]). *)
HeapClose(h, L) ==
    [h EXCEPT !.dirs = [i \in DOMAIN h.dirs |->
                          h.dirs[i] + Cardinality({l \in L : h.open[l] = i})]]

(* fail: that leaves the descriptor on top of the stack open. *)
Fail_keeping_top(p, error) ==
    LET q == [p EXCEPT !.pc = "done", !.error = error, !.fd = "none",
                       !.fds = <<p.fds[1]>>, !.paths = <<>>]
    IN IF Counted(p)
       THEN [q EXCEPT !.heap =
                [HeapClose(HeapFree(p.heap, DOMAIN p.heap.start),
                           1..(Len(p.heap.open) - 1))
                 EXCEPT !.start = <<>>, !.open = <<>>]]
       ELSE q

(* fail: the descriptors above fds[0] are closed, the strings freed. *)
Fail(p, error) ==
    LET q == [p EXCEPT !.pc = "done", !.error = error, !.fd = "none",
                       !.fds = <<p.fds[1]>>, !.paths = <<>>]
    IN IF Counted(p)
       THEN [q EXCEPT !.heap =
                [HeapClose(HeapFree(p.heap, DOMAIN p.heap.start),
                           DOMAIN p.heap.open)
                 EXCEPT !.start = <<>>, !.open = <<>>]]
       ELSE q

(* success: with pa->follow as the caller asked. *)
Success_as_asked(p, path) ==
    [p EXCEPT !.pc = "done", !.error = OK, !.fd = Top(p.fds), !.path = path,
              !.follow = p.flags_follow,
              !.fds = IF Len(p.fds) = 1 THEN p.fds ELSE <<p.fds[1], Top(p.fds)>>,
              !.paths = <<>>]

(* success: that closes none of the descriptors it drops. *)
Success_closing_none(p, path) ==
    LET q == [p EXCEPT !.pc = "done", !.error = OK, !.fd = Top(p.fds),
                       !.path = path, !.follow = FALSE,
                       !.fds = IF Len(p.fds) = 1 THEN p.fds
                               ELSE <<p.fds[1], Top(p.fds)>>,
                       !.paths = <<>>]
    IN IF Counted(p)
       THEN [q EXCEPT !.heap.open = IF Len(p.fds) = 1 THEN <<>>
                                    ELSE <<Top(p.heap.open)>>]
       ELSE q

(* success: the descriptors strictly between fds[0] and fds[curfd] are     *)
(* closed, the lease is filled in.                                         *)
Success(p, path) ==
    LET q == [p EXCEPT !.pc = "done", !.error = OK, !.fd = Top(p.fds),
                       !.path = path, !.follow = FALSE,
                       !.fds = IF Len(p.fds) = 1 THEN p.fds
                               ELSE <<p.fds[1], Top(p.fds)>>,
                       !.paths = <<>>]
        curfd == Len(p.fds) - 1
    IN IF Counted(p)
       THEN [q EXCEPT !.heap =
                [HeapClose(p.heap, 1..(curfd - 1))
                 EXCEPT !.open = IF curfd = 0 THEN <<>> ELSE <<Top(p.heap.open)>>]]
       ELSE q

(* free(paths[curpath--]) is handed the end of the string, not the start   *)
(* of the allocation: the allocator aborts the process, or goes on.        *)
FreeInterior(p) ==
    LET q == IF Counted(p) THEN [p EXCEPT !.heap.stray = @ + 1] ELSE p
    IN {[q EXCEPT !.pc = "abort"],
        IF Counted(q)
        THEN [q EXCEPT !.paths = Pop(p.paths), !.heap.start = Pop(@)]
        ELSE [q EXCEPT !.paths = Pop(p.paths)]}

(* free(paths_start[0]) of the branch that returns ".", with               *)
(* pa->path_start = NULL.                                                  *)
FreeStart(p) ==
    IF Counted(p)
    THEN [p EXCEPT !.heap = [HeapFree(p.heap, {1}) EXCEPT !.start = <<>>]]
    ELSE p

(* The end of an iteration that went on to "continue". *)
NextComponent(p) ==
    IF Top(p.paths) = <<>>
    THEN IF Len(p.paths) - 1 = 0 THEN {Success(FreeStart(p), <<".">>)}
         ELSE FreeInterior(p)
    ELSE {p}

(* The string readlinkat_dup() has allocated: the newest allocation. *)
Allocated(p) == IF Counted(p) THEN [p EXCEPT !.heap.bufs = Append(@, 0)] ELSE p

(* free(symlink) *)
FreeSymlink(p) ==
    IF Counted(p) THEN [p EXCEPT !.heap.bufs[Len(p.heap.bufs)] = @ + 1] ELSE p

(* free(paths_start[curpath]); paths_start[curpath] = symlink *)
ReplaceStart(p) ==
    IF Counted(p)
    THEN [p EXCEPT !.heap = [HeapFree(p.heap, {Len(p.heap.start)})
                             EXCEPT !.start[Len(p.heap.start)] = Len(p.heap.bufs)]]
    ELSE p

(* ++curpath; paths_start[curpath] = symlink *)
PushStart(p) ==
    IF Counted(p) THEN [p EXCEPT !.heap.start = Append(@, Len(p.heap.bufs))] ELSE p

(* push_symlink: without the limit on the number of expansions. *)
push_symlink_uncounted(p, symlink, ends_with_slashes) ==
    LET q == [Allocated(p) EXCEPT !.expansions = p.expansions + 1]
        link == IF ends_with_slashes THEN symlink \o <<"/">> ELSE symlink
    IN IF Top(q.paths) = <<>>
       THEN [ReplaceStart(q) EXCEPT !.paths[Len(q.paths)] = link]
       ELSE IF (Len(q.paths) - 1) + 1 = PathsSize
       THEN Fail(FreeSymlink(q), "ELOOP")
       ELSE [PushStart(q) EXCEPT !.paths = Append(q.paths, link)]

(* push_symlink: symlink is the string readlinkat_dup() returned. *)
push_symlink(p, symlink, ends_with_slashes) ==
    LET q == [Allocated(p) EXCEPT !.expansions = p.expansions + 1]
        link == IF ends_with_slashes THEN symlink \o <<"/">> ELSE symlink
    IN IF q.expansions = MaxExpansions THEN Fail(FreeSymlink(q), "ELOOP")
       ELSE IF Top(q.paths) = <<>>
       THEN [ReplaceStart(q) EXCEPT !.paths[Len(q.paths)] = link]
       ELSE IF (Len(q.paths) - 1) + 1 = PathsSize
       THEN Fail(FreeSymlink(q), "ELOOP")
       ELSE [PushStart(q) EXCEPT !.paths = Append(q.paths, link)]

(* close(fds[curfd--]) *)
PopDir(p) ==
    IF Counted(p)
    THEN [p EXCEPT !.fds = Pop(p.fds),
                   !.heap = [HeapClose(p.heap, {Len(p.heap.open)})
                             EXCEPT !.open = Pop(p.heap.open)]]
    ELSE [p EXCEPT !.fds = Pop(p.fds)]

(* The descriptor that does not fit in fds[], left open. *)
CloseNewdir_leaking(p) ==
    IF Counted(p) THEN [p EXCEPT !.heap.dirs = Append(@, 0)] ELSE p

(* close(newdir) of a descriptor that does not fit in fds[]. *)
CloseNewdir(p) ==
    IF Counted(p) THEN [p EXCEPT !.heap.dirs = Append(@, 1)] ELSE p

(* fds[++curfd] = newdir *)
PushDir(p, newdir) ==
    IF Counted(p)
    THEN [p EXCEPT !.fds = Append(p.fds, newdir),
                   !.heap.dirs = Append(@, 0),
                   !.heap.open = Append(@, Len(p.heap.dirs) + 1)]
    ELSE [p EXCEPT !.fds = Append(p.fds, newdir)]

(* One iteration of the for (;;) loop: the states it can end in. *)
path_get_iteration(p) ==
    LET top == Top(p.paths)
        n == strcspn(top, {"/"})
        file == SubSeq(top, 1, n)
        k == strspn(Skip(top, n), {"/"})
        ends_with_slashes == k > 0
        q == [p EXCEPT !.paths[Len(p.paths)] = Skip(top, n + k), !.file = file]
        curfd == Len(p.fds) - 1
        curpath == Len(p.paths) - 1
    IN IF file = <<>>
       THEN {Fail(q, IF ends_with_slashes THEN CLOUDABI_ENOTCAPABLE ELSE "ENOENT")}
       ELSE IF file = <<".">> THEN NextComponent(q)
       ELSE IF IsParent(file)
       THEN IF curfd = 0 THEN {Fail(q, CLOUDABI_ENOTCAPABLE)}
            ELSE NextComponent(PopDir(q))
       ELSE IF \/ curpath > 0
               \/ Top(q.paths) # <<>>
               \/ (ends_with_slashes /\ ~p.needs_final_component)
       THEN UNION {
              IF newdir.ok
              THEN IF curfd + 1 = FdsSize
                   THEN {Fail(CloseNewdir(q), "ENAMETOOLONG")}
                   ELSE NextComponent(PushDir(q, newdir.value))
              ELSE IF newdir.errno \notin {"host.ELOOP", "host.EMLINK"}
              THEN {Fail(q, convert_errno(newdir.errno))}
              ELSE {IF symlink.ok
                    THEN push_symlink(q, symlink.value, ends_with_slashes)
                    ELSE Fail(q, convert_errno(symlink.errno))
                    : symlink \in readlinkat_dup(Top(p.fds), file)}
              : newdir \in openat_directory_nofollow(Top(p.fds), file)}
       ELSE IF ends_with_slashes \/ p.flags_follow
       THEN {IF symlink.ok
             THEN push_symlink(q, symlink.value, ends_with_slashes)
             ELSE IF symlink.errno \notin {"host.EINVAL", "host.ENOENT"}
             THEN Fail(q, convert_errno(symlink.errno))
             ELSE Success(q, top)
             : symlink \in readlinkat_dup(Top(p.fds), file)}
       ELSE {Success(q, top)}

(* What the caller of a bare path_get() keeps across the call. *)
NoCaller == [op |-> "none"]

(* A call that has copied the pathname and is about to look fd up. *)
PathArguments(t, caller, fd, path, follow, rights_base, rights_inheriting, nfc) ==
    [pc |-> "lookup", t |-> t, caller |-> caller, dirfd |-> fd, fo |-> NULL,
     fe |-> UnusedEntry, rights_base |-> rights_base,
     rights_inheriting |-> rights_inheriting, flags_follow |-> follow,
     needs_final_component |-> nfc, fds |-> <<>>, paths |-> <<path>>,
     expansions |-> 0, file |-> <<>>, error |-> OK, fd |-> "none",
     path |-> <<>>, follow |-> follow]

(* The locals of a call that enters the loop: fe is the entry as           *)
(* fd_table_get_entry() found it.                                          *)
PathLocals(p, fe, number) ==
    [p EXCEPT !.pc = "loop", !.fo = fe.object, !.fe = fe, !.fds = <<number>>]

(* A call that returned error before it had entered the loop. *)
PathRefused(p, error) ==
    LET q == [p EXCEPT !.pc = "done", !.error = error, !.paths = <<>>]
    IN IF Counted(p)
       THEN [q EXCEPT !.heap = [HeapFree(p.heap, DOMAIN p.heap.start)
                                EXCEPT !.start = <<>>]]
       ELSE q

(* path_get() up to the lookup: str_nullterminate(), whose allocation can  *)
(* fail.                                                                   *)
path_get_enter(t, caller, fd, upath, follow, rights_base, rights_inheriting, nfc) ==
    /\ Running(t)
    /\ pa = NoPath
    /\ LET p == PathArguments(t, caller, fd, upath, follow, rights_base,
                              rights_inheriting, nfc)
       IN \/ /\ pa' = PathRefused(p, CLOUDABI_ENOMEM)
             /\ last' = Step(t, "path_get", fd, -1, rights_base,
                             rights_inheriting, CLOUDABI_ENOMEM, -1, -1)
             /\ UNCHANGED <<ft, objs, th, fault>>
          \/ /\ pa' = p
             /\ th' = [th EXCEPT ![t].pc = "path_get"]
             /\ UNCHANGED <<ft, objs, last, fault>>

(* fd_object_get() on the directory handle, then the loop is entered. *)
path_get_lookup(t) ==
    /\ fault = "none"
    /\ th[t].pc = "path_get"
    /\ pa.pc = "lookup"
    /\ pa.t = t
    /\ LET error == fd_table_get_entry(ft, pa.dirfd, pa.rights_base,
                                       pa.rights_inheriting)
           fe == ft.entries[pa.dirfd]
           step(err) == Step(t, "path_get", pa.dirfd, -1, pa.rights_base,
                             pa.rights_inheriting, err, -1, -1)
       IN IF error # OK
          THEN /\ pa' = PathRefused(pa, error)
               /\ th' = [th EXCEPT ![t] = Idle]
               /\ last' = step(error)
               /\ UNCHANGED <<ft, objs, fault>>
          ELSE /\ objs' = fd_object_get_locked(objs, ft, pa.dirfd)
               /\ th' = [th EXCEPT ![t].fo = fe.object]
               /\ pa' = PathLocals(pa, fe, fd_number(objs, fe.object))
               /\ last' = step(OK)
               /\ UNCHANGED <<ft, fault>>

(* One iteration of path_get()'s loop, up to the return if it is the last: *)
(* on failure the reference to the directory handle is dropped.            *)
path_get_loop(t) ==
    /\ fault = "none"
    /\ th[t].pc = "path_get"
    /\ pa.pc = "loop"
    /\ pa.t = t
    /\ \E p \in path_get_iteration(pa) :
          /\ pa' = p
          /\ fault' = IF p.pc = "abort" THEN "abort" ELSE fault
          /\ IF p.pc = "done" /\ p.error # OK
             THEN /\ objs' = fd_object_release(objs, pa.fo)
                  /\ th' = [th EXCEPT ![t] = Idle]
             ELSE /\ UNCHANGED objs
                  /\ th' = [th EXCEPT ![t].pc = IF p.pc = "done" THEN "leased"
                                                ELSE "path_get"]
          /\ last' = IF p.pc = "done"
                     THEN Step(t, "path_get", -1, -1, {}, {}, p.error, -1, -1)
                     ELSE last
    /\ UNCHANGED ft

(* path_put(): the lease is given back. *)
path_put(t) ==
    /\ fault = "none"
    /\ th[t].pc = "leased"
    /\ pa.t = t
    /\ objs' = fd_object_release(objs, pa.fo)
    /\ th' = [th EXCEPT ![t] = Idle]
    /\ pa' = NoPath
    /\ last' = Step(t, "path_put", -1, -1, {}, {}, OK, -1, -1)
    /\ UNCHANGED <<ft, fault>>

(* The caller of a path_get() that failed returns the error. *)
path_get_failed(t) ==
    /\ Running(t)
    /\ pa.pc = "done"
    /\ pa.t = t
    /\ pa.error # OK
    /\ pa' = NoPath
    /\ last' = Step(t, "return", -1, -1, {}, {}, pa.error, -1, -1)
    /\ UNCHANGED <<ft, objs, th, fault>>

-----------------------------------------------------------------------------
(* The resolver's runs: one thread resolving pathnames under a directory   *)
(* handle installed at descriptor 0 by fd_table_insert_existing().         *)

InitPath ==
    /\ ft = fd_table_attach(fd_table_grow(fd_table_init, 0, 1), 0, 1,
                            RIGHTS_DIRECTORY_BASE, RIGHTS_DIRECTORY_INHERITING)
    /\ objs = fd_object_set_number(
                  fd_object_new([o \in ObjIds |-> FreedObject], 1, "DIRECTORY"),
                  1, HandleDir)
    /\ th = [t \in Threads |-> Idle]
    /\ last = Unrecorded
    /\ fault = "none"
    /\ pa = NoPath

NextPath ==
    \/ /\ pa = NoPath
       /\ \E fd \in 0..1, upath \in Paths, flags_follow \in BOOLEAN,
             rights_base \in {{"FILE_OPEN"}, {"FD_READ"}},
             needs_final_component \in BOOLEAN :
             path_get_enter("t1", NoCaller, fd, upath, flags_follow,
                            rights_base, {}, needs_final_component)
    \/ path_get_lookup("t1")
    \/ path_get_loop("t1")
    \/ path_get_failed("t1")
    \/ path_put("t1")

SpecPath == InitPath /\ [][NextPath]_vars

-----------------------------------------------------------------------------
(* Properties of the resolver.                                             *)

(* Directory n is root or lies below it. *)
RECURSIVE Under(_, _)
Under(n, root) ==
    n \in HostDirs /\ (n = root \/ (Parent[n] # n /\ Under(Parent[n], root)))

(* "." or one name, not "..", with nothing but slashes after it. *)
ResidualPath(path) ==
    LET n == strcspn(path, {"/"})
    IN \/ path = <<".">>
       \/ /\ n > 0
          /\ SubSeq(path, 1, n) # <<".", ".">>
          /\ strspn(Skip(path, n), {"/"}) = Len(path) - n

(* The component the coming iteration extracts. *)
ComingFile(p) == SubSeq(Top(p.paths), 1, strcspn(Top(p.paths), {"/"}))

(* With depth directories on the stack, the string climbs above the        *)
(* bottom one through nothing but "." and ".." components.                 *)
RECURSIVE ClimbsFrom(_, _)
ClimbsFrom(s, depth) ==
    LET n == strcspn(s, {"/"})
        rest == Skip(s, n + strspn(Skip(s, n), {"/"}))
    IN IF SubSeq(s, 1, n) = <<".">> THEN ClimbsFrom(rest, depth)
       ELSE IF SubSeq(s, 1, n) = <<".", ".">>
       THEN depth = 0 \/ ClimbsFrom(rest, depth - 1)
       ELSE FALSE

RefusedNotCapable(p, ths) ==
    /\ p.pc = "done"
    /\ p.error = CLOUDABI_ENOTCAPABLE
    /\ p.fd = "none"
    /\ ths[p.t].pc = "idle"

C2_ParentOfHandleRefused ==
    [][(pa.pc = "loop" /\ Len(pa.fds) - 1 = 0 /\ ComingFile(pa) = <<".", ".">>) =>
           RefusedNotCapable(pa', th')
      ]_vars

(* ".." refused at depth zero in the expansion of a symbolic link met      *)
(* below the handle's directory.                                           *)
C2_Witness ==
    /\ pa.pc = "done"
    /\ pa.error = CLOUDABI_ENOTCAPABLE
    /\ pa.file = <<".", ".">>
    /\ pa.expansions > 0
    /\ th[pa.t].pc = "idle"

-----------------------------------------------------------------------------
(* sys_file_open()                                                         *)

(* The descriptor openat() returns: what fstat() and fcntl(F_GETFL) say of *)
(* it, and what it is open on.                                             *)
HostFd(st_mode, node, accmode) ==
    [st_mode |-> st_mode, node |-> node, accmode |-> accmode]

(* O_ACCMODE of the flags *)
AccMode(noflags) == CHOOSE m \in {"O_RDONLY", "O_WRONLY", "O_RDWR"} : m \in noflags

(* openat(d, path, noflags, 0777) on a lease's residual path: one name,    *)
(* slashes after it or not.  A file O_CREAT makes is not entered in the    *)
(* tree.                                                                   *)
host_openat(d, path, noflags) ==
    LET n == strcspn(path, {"/"})
        name == SubSeq(path, 1, n)
        slashes == n < Len(path)
        e == dirent(d, name)
        to == HostWalk(d, name, 2)
    IN CASE e.kind = "none" ->
              IF "O_CREAT" \in noflags /\ ~slashes /\ "O_DIRECTORY" \notin noflags
              THEN {HostOk(HostFd("reg", "new", AccMode(noflags)))}
              ELSE {HostErr("host.ENOENT")}
         [] e.kind = "lnk" /\ "O_NOFOLLOW" \in noflags /\ ~slashes ->
              {HostErr("host.ELOOP"), HostErr("host.EMLINK")}
         [] e.kind = "lnk" ->
              IF to = "none" THEN {HostErr("host.ENOENT")}
              ELSE {HostOk(HostFd("dir", to, AccMode(noflags)))}
         [] {"O_CREAT", "O_EXCL"} \subseteq noflags -> {HostErr("host.EEXIST")}
         [] e.kind = "dir" ->
              IF AccMode(noflags) # "O_RDONLY" \/ "O_CREAT" \in noflags
              THEN {HostErr("host.EISDIR")}
              ELSE {HostOk(HostFd("dir", e.node, AccMode(noflags)))}
         [] e.kind = "sock" -> {HostErr("host.ENXIO"), HostErr("host.EOPNOTSUPP")}
         [] OTHER ->
              IF slashes \/ "O_DIRECTORY" \in noflags
              THEN {HostErr("host.ENOTDIR")}
              ELSE {HostOk(HostFd(e.kind, name[1], AccMode(noflags)))}

(* fd_determine_type_rights(): the type and the two maxima of a host       *)
(* descriptor, or an error.                                                *)
TypeRights(type, rights_base, rights_inheriting) ==
    [error |-> OK, type |-> type, rights_base |-> rights_base,
     rights_inheriting |-> rights_inheriting]

fd_determine_type_rights(nfd) ==
    LET strip == CASE nfd.accmode = "O_RDONLY" -> {"FD_WRITE"}
                   [] nfd.accmode = "O_WRONLY" -> {"FD_READ"}
                   [] OTHER -> {}
    IN CASE nfd.st_mode = "dir" ->
              TypeRights("DIRECTORY", RIGHTS_DIRECTORY_BASE \ strip,
                         RIGHTS_DIRECTORY_INHERITING)
         [] nfd.st_mode = "reg" ->
              TypeRights("REGULAR_FILE", RIGHTS_REGULAR_FILE_BASE \ strip,
                         RIGHTS_REGULAR_FILE_INHERITING)
         [] nfd.st_mode = "fifo" ->
              TypeRights("SOCKET_STREAM", RIGHTS_SOCKET_BASE \ strip,
                         RIGHTS_SOCKET_INHERITING)
         [] OTHER -> [error |-> CLOUDABI_EINVAL, type |-> "none",
                      rights_base |-> {}, rights_inheriting |-> {}]

(* The open() mode that satisfies the rights asked for. *)
OpenMode(rights_base) ==
    LET read == rights_base \cap {"FD_READ"} # {}
        write == rights_base \cap {"FD_DATASYNC", "FD_WRITE",
                                   "FILE_STAT_FPUT_SIZE"} # {}
    IN IF write THEN IF read THEN "O_RDWR" ELSE "O_WRONLY" ELSE "O_RDONLY"

(* noflags, before O_NOFOLLOW is added *)
OpenFlags(oflags, fs_flags, rights_base) ==
    {OpenMode(rights_base)}
        \cup (oflags \cap {"O_CREAT", "O_DIRECTORY", "O_EXCL", "O_TRUNC"})
        \cup (IF "APPEND" \in fs_flags THEN {"O_APPEND"} ELSE {})
        \cup (IF "DSYNC" \in fs_flags THEN {"O_DSYNC"} ELSE {})
        \cup (IF "NONBLOCK" \in fs_flags THEN {"O_NONBLOCK"} ELSE {})
        \cup (IF "RSYNC" \in fs_flags THEN {"O_RSYNC"} ELSE {})
        \cup (IF "SYNC" \in fs_flags THEN {"O_SYNC"} ELSE {})

(* needed_base *)
NeededBase(oflags) ==
    {"FILE_OPEN"} \cup (IF "O_CREAT" \in oflags THEN {"FILE_CREATE_FILE"} ELSE {})

(* What the flags add to needed_inheriting. *)
NeededByFlags(oflags, fs_flags, rights_base) ==
    (IF "O_TRUNC" \in oflags THEN {"FILE_STAT_FPUT_SIZE"} ELSE {})
        \cup (IF "DSYNC" \in fs_flags THEN {"FD_DATASYNC"} ELSE {})
        \cup (IF "RSYNC" \in fs_flags \/ "SYNC" \in fs_flags THEN {"FD_SYNC"} ELSE {})
        \cup (IF /\ OpenMode(rights_base) # "O_RDONLY"
                 /\ "APPEND" \notin fs_flags
                 /\ "O_TRUNC" \notin oflags
              THEN {"FD_SEEK"} ELSE {})

(* needed_inheriting that leaves rights_base out. *)
NeededInheriting_without_base(oflags, fs_flags, rights_base, rights_inheriting) ==
    rights_inheriting \cup NeededByFlags(oflags, fs_flags, rights_base)

(* needed_inheriting *)
NeededInheriting(oflags, fs_flags, rights_base, rights_inheriting) ==
    (rights_base \cup rights_inheriting)
        \cup NeededByFlags(oflags, fs_flags, rights_base)

(* The mask installed without the type's maximum applied. *)
InstalledRights_as_asked(rights, max) == rights

(* rights_base & max_base, rights_inheriting & max_inheriting *)
InstalledRights(rights, max) == rights \cap max

(* sys_file_open() up to path_get()'s lookup: the locals are computed and  *)
(* kept for after the call.                                                *)
sys_file_open(t, dirfd, follow, path, oflags, fs_flags, rights_base, rights_inheriting) ==
    path_get_enter(t,
        [op |-> "file_open", rights_base |-> rights_base,
         rights_inheriting |-> rights_inheriting,
         noflags |-> OpenFlags(oflags, fs_flags, rights_base)],
        dirfd, path, follow, NeededBase(oflags),
        NeededInheriting(oflags, fs_flags, rights_base, rights_inheriting),
        "O_CREAT" \in oflags)

(* The error sys_file_open() returns when openat() has failed. *)
OpenError(p, errno) ==
    IF errno = "host.ENXIO"
    THEN IF dirent(p.fd, SubSeq(p.path, 1, strcspn(p.path, {"/"}))).kind = "sock"
         THEN "ENOTSUP" ELSE "ENXIO"
    ELSE IF ~p.follow /\ errno = "host.EMLINK" THEN "ELOOP"
    ELSE convert_errno(errno)

(* sys_file_open() from the lease to the table: openat(), path_put(),      *)
(* fd_determine_type_rights().  The thread goes on to insert the           *)
(* descriptor, or returns the error; it remembers the entry the lookup     *)
(* found.                                                                  *)
sys_file_open_openat(t) ==
    /\ fault = "none"
    /\ th[t].pc = "leased"
    /\ pa.t = t
    /\ pa.caller.op = "file_open"
    /\ \E nfd \in host_openat(pa.fd, pa.path,
                      pa.caller.noflags \cup
                          (IF pa.follow THEN {} ELSE {"O_NOFOLLOW"})) :
          LET max == fd_determine_type_rights(nfd.value)
              error == IF ~nfd.ok THEN OpenError(pa, nfd.errno) ELSE max.error
          IN /\ objs' = fd_object_release(objs, pa.fo)
             /\ pa' = NoPath
             /\ th' = [th EXCEPT ![t] =
                         IF error # OK THEN Idle
                         ELSE [pc |-> "file_open_insert", fo |-> NULL, rel |-> <<>>,
                               asked |-> pa.caller, fe |-> pa.fe,
                               nfd |-> nfd.value, max |-> max]]
             /\ last' = Step(t, "file_open", pa.dirfd, -1, pa.caller.rights_base,
                             pa.caller.rights_inheriting, error, -1, -1)
    /\ UNCHANGED <<ft, fault>>

(* sys_file_open()'s last call: fd_table_insert_fd() *)
sys_file_open_insert(t) ==
    /\ fault = "none"
    /\ th[t].pc = "file_open_insert"
    /\ fd_table_insert(t, "file_open", th[t].max.type, th[t].nfd.node,
           InstalledRights(th[t].asked.rights_base, th[t].max.rights_base),
           InstalledRights(th[t].asked.rights_inheriting,
                           th[t].max.rights_inheriting))

-----------------------------------------------------------------------------
(* The runs of sys_file_open(): one thread opens files through the         *)
(* directory handle at descriptor 0 while another restricts that handle.   *)

OpenPaths ==
    {<<".">>, <<"a">>, <<"f">>, <<"p">>, <<"k">>, <<"s">>, <<"n">>,
     <<"s", "/">>, <<"b", "/", "f">>, <<".", ".">>}
OpenOflags == {{}, {"O_CREAT"}, {"O_TRUNC"}, {"O_DIRECTORY"}}
OpenFdflags == {{}, {"SYNC"}}
OpenBase == {{"FD_READ"}, {"FD_READ", "FD_WRITE"}, {"FD_READ", "FILE_OPEN"}}
OpenInheriting == {{}, {"FD_READ"}}
DirBase == {{"FILE_OPEN", "FILE_CREATE_FILE"}}
DirInheriting == {{"FD_READ"}, {"FD_READ", "FD_WRITE", "FD_SEEK"}}

InitOpen ==
    /\ ft = fd_table_attach(fd_table_grow(fd_table_init, 0, 1), 0, 1,
                            RIGHTS_DIRECTORY_BASE, RIGHTS_DIRECTORY_INHERITING)
    /\ objs = fd_object_set_number(
                  fd_object_new([o \in ObjIds |-> FreedObject], 1, "DIRECTORY"),
                  1, HandleDir)
    /\ th = [t \in Threads |-> Idle]
    /\ last = Unrecorded
    /\ fault = "none"
    /\ pa = NoPath

NextOpen ==
    \/ /\ pa = NoPath
       /\ \E dirfd \in {0}, follow \in BOOLEAN, path \in OpenPaths,
             oflags \in OpenOflags, fs_flags \in OpenFdflags,
             rights_base \in OpenBase, rights_inheriting \in OpenInheriting :
             sys_file_open("t1", dirfd, follow, path, oflags, fs_flags,
                           rights_base, rights_inheriting)
    \/ path_get_lookup("t1")
    \/ path_get_loop("t1")
    \/ path_get_failed("t1")
    \/ sys_file_open_openat("t1")
    \/ sys_file_open_insert("t1")
    \/ ReleaseStep("t1")
    \/ \E base \in DirBase, inheriting \in DirInheriting :
          sys_fd_stat_put("t2", 0, base, inheriting)

SpecOpen == InitOpen /\ [][NextOpen]_vars

-----------------------------------------------------------------------------
(* Properties of sys_file_open().                                          *)

(* The slots a step has filled. *)
Installed == {fd \in Slots(ft') : ~Occupied(ft, fd) /\ Occupied(ft', fd)}

(* Thread t takes the step that returns from a successful open. *)
OpenReturns(t) == th[t].pc = "file_open_insert" /\ th'[t].pc = "idle"

(* C8: the handle a successful open through directory handle d installs    *)
(* has a base and an inheriting mask within the inheriting mask d had when *)
(* path_get() looked it up; and a lookup of d for an open that asks for a  *)
(* right outside d's inheriting mask returns not-capable, the table is     *)
(* left as it was and the call is over.                                    *)
C8_OpenWithinInheriting ==
    [][/\ \A t \in Threads : OpenReturns(t) =>
              \A fd \in Installed :
                  /\ ft'.entries[fd].rights_base \subseteq th[t].fe.rights_inheriting
                  /\ ft'.entries[fd].rights_inheriting \subseteq
                         th[t].fe.rights_inheriting
       /\ (/\ pa.pc = "lookup"
           /\ pa'.pc # "lookup"
           /\ pa.caller.op = "file_open"
           /\ Occupied(ft, pa.dirfd)
           /\ ~((pa.caller.rights_base \cup pa.caller.rights_inheriting)
                    \subseteq ft.entries[pa.dirfd].rights_inheriting)) =>
              /\ pa'.pc = "done"
              /\ pa'.error = CLOUDABI_ENOTCAPABLE
              /\ ft' = ft
              /\ th'[pa.t].pc = "idle"
      ]_vars

(* A handle that was opened with the right to write, through a directory   *)
(* handle that no longer lets that right be inherited.                     *)
C8_Witness ==
    /\ ft.entries[0].rights_inheriting = {"FD_READ"}
    /\ \E fd \in Slots(ft) \ {0} :
          /\ Occupied(ft, fd)
          /\ ft.entries[fd].rights_base = {"FD_READ", "FD_WRITE"}
    /\ \A t \in Threads : th[t].pc = "idle"

(* C9: a successful open installs exactly one handle, of the type          *)
(* fd_determine_type_rights() gives the opened descriptor, whose base mask *)
(* is the base mask asked for cut down to that type's maximum, and whose   *)
(* inheriting mask is the inheriting mask asked for cut down likewise.     *)
C9_InstalledIsAskedCutToType ==
    [][\A t \in Threads : OpenReturns(t) =>
          /\ Cardinality(Installed) = 1
          /\ \A fd \in Installed :
                /\ objs'[ft'.entries[fd].object].type =
                       fd_determine_type_rights(th[t].nfd).type
                /\ ft'.entries[fd].rights_base =
                       th[t].asked.rights_base \cap
                           fd_determine_type_rights(th[t].nfd).rights_base
                /\ ft'.entries[fd].rights_inheriting =
                       th[t].asked.rights_inheriting \cap
                           fd_determine_type_rights(th[t].nfd).rights_inheriting
      ]_vars

(* A directory opened with FD_READ and FILE_OPEN asked for: the directory  *)
(* maximum has cut FD_READ off.                                            *)
C9_Witness ==
    \E fd \in Slots(ft) \ {0} :
        /\ Occupied(ft, fd)
        /\ objs[ft.entries[fd].object].type = "DIRECTORY"
        /\ ft.entries[fd].rights_base = {"FILE_OPEN"}
        /\ ft.entries[fd].rights_inheriting = {"FD_READ"}


-----------------------------------------------------------------------------
(* ft->lock in the system calls that are more than one step long.          *)
(*                                                                         *)
(* sys_sock_send() and sys_poll() take ft->lock shared, walk a vector of   *)
(* descriptors and drop the lock before the host call.  Their threads      *)
(* carry a field lock: "rd" from rwlock_rdlock() to rwlock_unlock().  The   *)
(* system calls that take the lock exclusively are one action with the     *)
(* lock taken and dropped inside; they wait while a thread holds it.       *)

Lock(t) == IF "lock" \in DOMAIN th[t] THEN th[t].lock ELSE "none"

(* rwlock_wrlock() returns: no thread holds the lock shared. *)
LockFree == \A t \in Threads : Lock(t) = "none"

-----------------------------------------------------------------------------
(* sys_sock_send()                                                         *)

MaxFds == 2       \* si_fds_len of the messages sent: 0..MaxFds

(* in->si_fds: the descriptors to pass along with the message. *)
SendFds == UNION {[1..n -> FdArgs] : n \in 0..MaxFds}

(* The loop over in->si_fds under the shared lock, from si_fds[i] on:      *)
(* what it leaves in fos[0..nfos-1], the reference counts, and error.      *)
RECURSIVE SendScan(_, _, _, _)
SendScan(os, t, si_fds, fos) ==
    IF si_fds = <<>> THEN [objs |-> os, fos |-> fos, error |-> OK]
    ELSE LET fd == Head(si_fds)
             error == fd_table_get_entry(t, fd, {}, {})
         IN IF error # OK THEN [objs |-> os, fos |-> fos, error |-> error]
            ELSE LET fo == t.entries[fd].object
                     acquired == fd_object_get_locked(os, t, fd)
                 IN IF fd_number(acquired, fo) = "unset"
                    THEN [objs |-> acquired, fos |-> Append(fos, fo),
                          error |-> CLOUDABI_EBADF]
                    ELSE SendScan(acquired, t, Tail(si_fds), Append(fos, fo))

(* The thread of a sys_sock_send() call past its allocations. *)
SendThread(pc, lock, sock, fo, fos, error) ==
    [pc |-> pc, fo |-> fo, rel |-> <<>>, lock |-> lock, sock |-> sock,
     fos |-> fos, nfos |-> Len(fos), error |-> error]

(* sys_sock_send() up to the end of the loop: the allocations, which can   *)
(* fail, rwlock_rdlock() and the loop.  With no descriptors to pass the    *)
(* lock is not taken.                                                      *)
sys_sock_send(t, sock, si_fds) ==
    /\ Running(t)
    /\ IF si_fds = <<>>
       THEN /\ th' = [th EXCEPT ![t] =
                         SendThread("send_get", "none", sock, NULL, <<>>, OK)]
            /\ UNCHANGED <<ft, objs, last, fault, pa>>
       ELSE \/ Return(Step(t, "sock_send", sock, -1, {}, {}, CLOUDABI_ENOMEM,
                           -1, -1))
            \/ LET scan == SendScan(objs, ft, si_fds, <<>>)
               IN /\ objs' = scan.objs
                  /\ th' = [th EXCEPT ![t] =
                               SendThread("send_scanned", "rd", sock, NULL,
                                          scan.fos, scan.error)]
                  /\ UNCHANGED <<ft, last, fault, pa>>

(* rwlock_unlock() that is left out: the lock stays held to the return. *)
sys_sock_send_unlock_never(t) ==
    /\ fault = "none"
    /\ th[t].pc = "send_scanned"
    /\ th' = [th EXCEPT ![t].pc = IF th[t].error # OK THEN "send_out"
                                  ELSE "send_get"]
    /\ UNCHANGED <<ft, objs, last, fault, pa>>

(* rwlock_unlock(&ft->lock): after the loop, or in it before goto out. *)
sys_sock_send_unlock(t) ==
    /\ fault = "none"
    /\ th[t].pc = "send_scanned"
    /\ th' = [th EXCEPT ![t].lock = "none",
                        ![t].pc = IF th[t].error # OK THEN "send_out"
                                  ELSE "send_get"]
    /\ UNCHANGED <<ft, objs, last, fault, pa>>

(* fd_object_get(&fo, sock, CLOUDABI_RIGHT_FD_WRITE, 0) *)
sys_sock_send_get(t) ==
    /\ fault = "none"
    /\ th[t].pc = "send_get"
    /\ LET error == fd_table_get_entry(ft, th[t].sock, {"FD_WRITE"}, {})
       IN IF error # OK
          THEN /\ th' = [th EXCEPT ![t].pc = "send_out", ![t].error = error]
               /\ UNCHANGED objs
          ELSE /\ objs' = fd_object_get_locked(objs, ft, th[t].sock)
               /\ th' = [th EXCEPT ![t].pc = "send_host",
                                   ![t].fo = ft.entries[th[t].sock].object]
    /\ UNCHANGED <<ft, last, fault, pa>>

(* sendmsg() and what it returns, then fd_object_release(fo). *)
sys_sock_send_sendmsg(t) ==
    /\ fault = "none"
    /\ th[t].pc = "send_host"
    /\ \E errno \in {OK, "host.EPIPE"} :
          th' = [th EXCEPT ![t].pc = "send_out", ![t].fo = NULL,
                           ![t].error = IF errno = OK THEN OK
                                        ELSE convert_errno(errno)]
    /\ objs' = fd_object_release(objs, th[t].fo)
    /\ UNCHANGED <<ft, last, fault, pa>>

(* out: fd_object_release(fos[i]) for i < nfos, one a step, then the       *)
(* return of error.                                                        *)
sys_sock_send_out(t) ==
    /\ fault = "none"
    /\ th[t].pc = "send_out"
    /\ IF th[t].fos # <<>>
       THEN /\ objs' = fd_object_release(objs, Head(th[t].fos))
            /\ th' = [th EXCEPT ![t].fos = Tail(th[t].fos)]
            /\ UNCHANGED last
       ELSE /\ th' = [th EXCEPT ![t] = Idle]
            /\ last' = Step(t, "sock_send", th[t].sock, -1, {}, {},
                            th[t].error, -1, -1)
            /\ UNCHANGED objs
    /\ UNCHANGED <<ft, fault, pa>>


-----------------------------------------------------------------------------
(* sys_poll()                                                              *)
(*                                                                         *)
(* The subscriptions modelled are the kinds futex_op_poll() leaves to the  *)
(* rest of sys_poll(): FD_READ, FD_WRITE, CLOCK, and PROC_TERMINATE for    *)
(* the kinds the switch has no case for.                                   *)

MaxSubs == 2      \* nsubscriptions of the calls made: 0..MaxSubs

(* s->clock.timeout / 1000000 as a pair of words: the quotient is           *)
(* hi * 2^31 + lo, and it exceeds INT_MAX exactly when hi > 0.             *)
ClockTimeouts == {[hi |-> 0, lo |-> 50], [hi |-> 1, lo |-> 0]}
NoTimeout == [hi |-> 0, lo |-> 0]

PollFds == {1, 2}
Userdata == {7, 8}

subscription(type, fd, abstime, timeout, userdata) ==
    [type |-> type, fd |-> fd, abstime |-> abstime, timeout |-> timeout,
     userdata |-> userdata]

Subscriptions ==
    {subscription(type, fd, FALSE, NoTimeout, u) :
        type \in {"FD_READ", "FD_WRITE"}, fd \in PollFds, u \in Userdata}
    \cup {subscription("CLOCK", -1, FALSE, ts, u) :
             ts \in ClockTimeouts, u \in Userdata}
    \cup {subscription("CLOCK", -1, TRUE, NoTimeout, u) : u \in Userdata}
    \cup {subscription("PROC_TERMINATE", -1, FALSE, NoTimeout, u) :
             u \in Userdata}

SubscriptionVectors == UNION {[1..n -> Subscriptions] : n \in 0..MaxSubs}

(* An event that carries the userdata of the first subscription. *)
event_of_first(in, i, error, flags) ==
    [userdata |-> in[1].userdata, error |-> error, type |-> in[i].type,
     flags |-> flags, index |-> i]

(* A cloudabi_event_t written to out[]; index is the i of the in[i] whose  *)
(* userdata and type the code copied into it.                              *)
event(in, i, error, flags) ==
    [userdata |-> in[i].userdata, error |-> error, type |-> in[i].type,
     flags |-> flags, index |-> i]

(* struct pollfd.  Host descriptors go by name in this model, and "-1" is  *)
(* the one poll() skips.                                                   *)
pollfd(fd, events) == [fd |-> fd, events |-> events]
NoPollfd == pollfd("-1", "none")

(* The loop over the subscriptions that takes every relative clock        *)
(* subscription as the timeout, the last one winning.                      *)
RECURSIVE PollScan_any_clock(_, _, _, _)
PollScan_any_clock(scan, t, in, i) ==
    IF i > Len(in) THEN scan
    ELSE LET s == in[i]
             skipped(error) ==
                [scan EXCEPT !.fos = Append(@, NULL),
                             !.pfds = Append(@, NoPollfd),
                             !.out = Append(@, event(in, i, error, "none"))]
             next ==
                IF s.type \in {"FD_READ", "FD_WRITE"}
                THEN LET error == fd_table_get_entry(t, s.fd,
                                      {"POLL_FD_READWRITE"}, {})
                     IN IF error = OK
                        THEN [scan EXCEPT
                                 !.objs = fd_object_get_locked(@, t, s.fd),
                                 !.fos = Append(@, t.entries[s.fd].object),
                                 !.pfds = Append(@,
                                    pollfd(fd_number(scan.objs,
                                                     t.entries[s.fd].object),
                                           IF s.type = "FD_READ"
                                           THEN "POLLRDNORM" ELSE "POLLWRNORM"))]
                        ELSE skipped(error)
                ELSE IF s.type = "CLOCK" /\ ~s.abstime
                THEN [scan EXCEPT !.fos = Append(@, NULL),
                                  !.pfds = Append(@, NoPollfd),
                                  !.clock_subscription = i]
                ELSE skipped("ENOSYS")
         IN PollScan_any_clock(next, t, in, i + 1)

(* The loop over the subscriptions under the shared lock, from in[i] on.   *)
(* scan: fos and pfds filled so far, the events written to out, the index  *)
(* of clock_subscription (NULL: none yet) and the reference counts.         *)
RECURSIVE PollScan(_, _, _, _)
PollScan(scan, t, in, i) ==
    IF i > Len(in) THEN scan
    ELSE LET s == in[i]
             skipped(error) ==
                [scan EXCEPT !.fos = Append(@, NULL),
                             !.pfds = Append(@, NoPollfd),
                             !.out = Append(@, event(in, i, error, "none"))]
             next ==
                IF s.type \in {"FD_READ", "FD_WRITE"}
                THEN LET error == fd_table_get_entry(t, s.fd,
                                      {"POLL_FD_READWRITE"}, {})
                     IN IF error = OK
                        THEN [scan EXCEPT
                                 !.objs = fd_object_get_locked(@, t, s.fd),
                                 !.fos = Append(@, t.entries[s.fd].object),
                                 !.pfds = Append(@,
                                    pollfd(fd_number(scan.objs,
                                                     t.entries[s.fd].object),
                                           IF s.type = "FD_READ"
                                           THEN "POLLRDNORM" ELSE "POLLWRNORM"))]
                        ELSE skipped(error)
                ELSE IF /\ s.type = "CLOCK"
                        /\ scan.clock_subscription = NULL
                        /\ ~s.abstime
                THEN [scan EXCEPT !.fos = Append(@, NULL),
                                  !.pfds = Append(@, NoPollfd),
                                  !.clock_subscription = i]
                ELSE skipped("ENOSYS")
         IN PollScan(next, t, in, i + 1)

(* The thread of a sys_poll() call. *)
PollThread(pc, lock, in, scan, error) ==
    [pc |-> pc, fo |-> NULL, rel |-> <<>>, lock |-> lock, in |-> in,
     fos |-> scan.fos, pfds |-> scan.pfds, out |-> scan.out,
     nevents |-> Len(scan.out),
     clock_subscription |-> scan.clock_subscription, ret |-> 0,
     error |-> error]

NoScan(os) ==
    [objs |-> os, fos |-> <<>>, pfds |-> <<>>, out |-> <<>>,
     clock_subscription |-> NULL]

(* sys_poll() up to the end of the loop over the subscriptions.  A single  *)
(* CLOCK subscription is a sleep: out[0] is written, then the thread       *)
(* sleeps.  Otherwise the two arrays are allocated, which can fail, the    *)
(* lock is taken shared and the loop runs.                                 *)
sys_poll(t, in) ==
    /\ Running(t)
    /\ IF Len(in) = 1 /\ in[1].type = "CLOCK"
       THEN /\ th' = [th EXCEPT ![t] =
                         [PollThread("poll_sleep", "none", in,
                             [NoScan(objs) EXCEPT
                                 !.out = <<event(in, 1, OK, "none")>>], OK)
                          EXCEPT !.nevents = 0]]
            /\ UNCHANGED <<ft, objs, last, fault, pa>>
       ELSE \/ Return(Step(t, "poll", -1, -1, {}, {}, CLOUDABI_ENOMEM, -1, -1))
            \/ LET scan == PollScan(NoScan(objs), ft, in, 1)
               IN /\ objs' = scan.objs
                  /\ th' = [th EXCEPT ![t] =
                               PollThread("poll_scanned", "rd", in, scan, OK)]
                  /\ UNCHANGED <<ft, last, fault, pa>>

(* The sleep returns: clock_nanosleep() can fail, and a clock the host     *)
(* does not have is ENOTSUP; then *nevents = 1.                            *)
sys_poll_sleep(t) ==
    /\ fault = "none"
    /\ th[t].pc = "poll_sleep"
    /\ \E error \in {OK, "EINTR", "ENOTSUP"} :
          th' = [th EXCEPT ![t].pc = "poll_out", ![t].nevents = 1,
                           ![t].out[1].error = error]
    /\ UNCHANGED <<ft, objs, last, fault, pa>>

(* sys_poll() that calls poll() with the lock still held. *)
sys_poll_unlock_never(t) ==
    /\ fault = "none"
    /\ th[t].pc = "poll_scanned"
    /\ th' = [th EXCEPT ![t].pc = "poll_host"]
    /\ UNCHANGED <<ft, objs, last, fault, pa>>

(* rwlock_unlock(&ft->lock) after the loop. *)
sys_poll_unlock(t) ==
    /\ fault = "none"
    /\ th[t].pc = "poll_scanned"
    /\ th' = [th EXCEPT ![t].pc = "poll_host", ![t].lock = "none"]
    /\ UNCHANGED <<ft, objs, last, fault, pa>>

(* int timeout, as computed before poll(). *)
PollTimeout(nevents, in, clock_subscription) ==
    IF nevents # 0 THEN 0
    ELSE IF clock_subscription # NULL
    THEN (IF in[clock_subscription].timeout.hi > 0 THEN -1
          ELSE in[clock_subscription].timeout.lo)
    ELSE -1

(* The bits poll() can set in revents that the code tests. *)
Revents ==
    {{}, {"POLLNVAL"}, {"POLLERR"}, {"POLLHUP"}, {"POLLNORM"},
     {"POLLHUP", "POLLNORM"}}

(* What poll(pfds, nsubscriptions, timeout) can return: -1, or revents     *)
(* for the entries with fd >= 0 and the number of entries with revents     *)
(* set; with timeout -1 it does not return 0.                              *)
HostPoll(pfds, timeout) ==
    {[ret |-> -1, revents |-> [i \in 1..Len(pfds) |-> {}]]}
    \cup {[ret |-> Cardinality({i \in 1..Len(pfds) : revents[i] # {}}),
           revents |-> revents] :
            revents \in {r \in [1..Len(pfds) -> Revents] :
                           /\ \A i \in 1..Len(pfds) :
                                 pfds[i].fd = NoPollfd.fd => r[i] = {}
                           /\ timeout = -1 => \E i \in 1..Len(pfds) : r[i] # {}}}

(* The loop over pfds after poll() with an if for every bit instead of the *)
(* else-if chain.                                                          *)
RECURSIVE PollEvents_every_bit(_, _, _, _, _)
PollEvents_every_bit(out, in, pfds, revents, i) ==
    IF i > Len(in) THEN out
    ELSE LET when(bit, o, error) ==
                IF pfds[i].fd # NoPollfd.fd /\ bit \in revents[i]
                THEN Append(o, event(in, i, error, "none")) ELSE o
         IN PollEvents_every_bit(
                when("POLLNORM",
                     when("POLLHUP",
                          when("POLLERR",
                               when("POLLNVAL", out, CLOUDABI_EBADF), "EIO"),
                          OK), OK),
                in, pfds, revents, i + 1)

(* The loop over pfds after poll() that writes its events in front of the *)
(* ones the scan wrote.                                                    *)
PollEvents_in_front(out, in, pfds, revents, i) ==
    PollEvents_every_bit(<<>>, in, pfds, revents, i) \o out

(* The loop over pfds after poll(), from entry i on: the events it adds. *)
RECURSIVE PollEvents(_, _, _, _, _)
PollEvents(out, in, pfds, revents, i) ==
    IF i > Len(in) THEN out
    ELSE LET hangup == "EVENT_FD_READWRITE_HANGUP"
             next ==
                IF pfds[i].fd = NoPollfd.fd THEN out
                ELSE IF "POLLNVAL" \in revents[i]
                THEN Append(out, event(in, i, CLOUDABI_EBADF, "none"))
                ELSE IF "POLLERR" \in revents[i]
                THEN Append(out, event(in, i, "EIO", "none"))
                ELSE IF "POLLHUP" \in revents[i]
                THEN Append(out, event(in, i, OK, hangup))
                ELSE IF "POLLNORM" \in revents[i]
                THEN Append(out, event(in, i, OK, "none"))
                ELSE out
         IN PollEvents(next, in, pfds, revents, i + 1)

(* The clock event of a poll() that timed out. *)
ClockEvent(in, clock_subscription) ==
    [userdata |-> in[clock_subscription].userdata, error |-> OK,
     type |-> "CLOCK", flags |-> "none", index |-> clock_subscription]

(* PollOut() with a clock event whenever poll() reports no descriptor. *)
PollOut_clock_after_errors(p, host) ==
    IF host.ret = -1 THEN p.out
    ELSE IF host.ret = 0 /\ p.clock_subscription # NULL
    THEN Append(p.out, ClockEvent(p.in, p.clock_subscription))
    ELSE PollEvents(p.out, p.in, p.pfds, host.revents, 1)

(* out[] after poll() returned ret: the three branches. *)
PollOut(p, host) ==
    IF host.ret = -1 THEN p.out
    ELSE IF host.ret = 0 /\ p.nevents = 0 /\ p.clock_subscription # NULL
    THEN Append(p.out, ClockEvent(p.in, p.clock_subscription))
    ELSE PollEvents(p.out, p.in, p.pfds, host.revents, 1)

(* poll() returns and the events are written; what is left is the loop     *)
(* that releases fos[].                                                    *)
sys_poll_host(t) ==
    /\ fault = "none"
    /\ th[t].pc = "poll_host"
    /\ \E host \in HostPoll(th[t].pfds,
                    PollTimeout(th[t].nevents, th[t].in,
                                th[t].clock_subscription)) :
          LET out == PollOut(th[t], host)
          IN th' = [th EXCEPT ![t].pc = "poll_out", ![t].out = out,
                              ![t].nevents = Len(out), ![t].ret = host.ret,
                              ![t].error = IF host.ret = -1
                                           THEN convert_errno("host.EINTR")
                                           ELSE OK]
    /\ UNCHANGED <<ft, objs, last, fault, pa>>

(* fd_object_release(fos[i]) for the fos[i] that are not NULL, one a step, *)
(* then the return of error.                                               *)
sys_poll_out(t) ==
    /\ fault = "none"
    /\ th[t].pc = "poll_out"
    /\ IF th[t].fos # <<>>
       THEN /\ objs' = IF Head(th[t].fos) = NULL THEN objs
                       ELSE fd_object_release(objs, Head(th[t].fos))
            /\ th' = [th EXCEPT ![t].fos = Tail(th[t].fos)]
            /\ UNCHANGED last
       ELSE /\ th' = [th EXCEPT ![t] = Idle]
            /\ last' = Step(t, "poll", -1, -1, {}, {}, th[t].error, -1, -1)
            /\ UNCHANGED objs
    /\ UNCHANGED <<ft, fault, pa>>


-----------------------------------------------------------------------------
(* The multiplexer's runs: t1 calls sys_poll() on a table that holds the   *)
(* two ends of a socket pair at descriptors 1 and 2, while t2 closes,      *)
(* restricts and inserts descriptors.                                      *)

(* The rights a guest keeps on a socket it polls. *)
PollRights == {"FD_READ", "FD_WRITE", "POLL_FD_READWRITE"}

SocketPairTable ==
    fd_table_attach(
        fd_table_attach(fd_table_grow(fd_table_init, 0, 2), 1, 1,
                        PollRights, {}),
        2, 2, PollRights, {})

SocketPairObjects ==
    LET one == fd_object_set_number(
                   fd_object_new([o \in ObjIds |-> FreedObject], 1,
                                 "SOCKET_STREAM"), 1, "socket")
    IN fd_object_set_number(fd_object_new(one, 2, "SOCKET_STREAM"), 2, "socket")

InitPoll ==
    /\ ft = SocketPairTable
    /\ objs = SocketPairObjects
    /\ th = [t \in Threads |-> Idle]
    /\ last = Unrecorded
    /\ fault = "none"
    /\ pa = NoPath

(* What the other thread does to the table meanwhile; the calls that take  *)
(* the lock exclusively wait for the shared holders to drop it.            *)
Interference(t) ==
    \/ LockFree /\ \E fd \in PollFds : sys_fd_close(t, fd)
    \/ LockFree /\ sys_fd_stat_put(t, 1, {"FD_READ"}, {})
    \/ LockFree /\ sys_fd_create1(t)
    \/ ReleaseStep(t)

NextPoll ==
    \/ /\ th["t1"].pc = "idle"
       /\ \E in \in SubscriptionVectors : sys_poll("t1", in)
    \/ sys_poll_sleep("t1")
    \/ sys_poll_unlock("t1")
    \/ sys_poll_host("t1")
    \/ sys_poll_out("t1")
    \/ Interference("t2")

SpecPoll == InitPoll /\ [][NextPoll]_vars


-----------------------------------------------------------------------------
(* Properties of the multiplexer.                                          *)

(* The thread sits in poll(), nanosleep() or clock_nanosleep(). *)
Blocked(t) == th[t].pc \in {"poll_host", "poll_sleep"}

(* C17: a thread blocked in the host's poll or sleep does not hold the     *)
(* table's lock: the scan under the shared lock has ended before poll()    *)
(* is called, so every other thread that is between system calls can go    *)
(* on with its insert, close or restrict.                                  *)
C17_BlockedWithoutLock ==
    \A t \in Threads :
        Blocked(t) =>
            /\ Lock(t) = "none"
            /\ \A u \in Threads \ {t} :
                  Running(u) =>
                      /\ ENABLED (LockFree /\ sys_fd_close(u, 1))
                      /\ ENABLED (LockFree /\ sys_fd_stat_put(u, 1, {"FD_READ"}, {}))
                      /\ (FreeIds(objs) # {} /\ ft.used < MaxUsed
                             => ENABLED (LockFree /\ sys_fd_create1(u)))

(* t1 is in poll() on a descriptor that t2 has closed meanwhile. *)
C17_Witness ==
    /\ th["t1"].pc = "poll_host"
    /\ th["t2"].pc = "idle"
    /\ \E i \in 1..Len(th["t1"].in) :
          /\ th["t1"].fos[i] # NULL
          /\ ft.entries[th["t1"].in[i].fd].object = NULL

(* C18: whatever the subscriptions and whatever poll() returns, no two     *)
(* events written to out[] are for the same subscription, and nevents is   *)
(* at most nsubscriptions.                                                 *)
C18_OneEventPerSubscription ==
    \A t \in Threads :
        "out" \in DOMAIN th[t] =>
            LET p == th[t]
            IN /\ p.nevents <= Len(p.in)
               /\ Len(p.out) <= Len(p.in)
               /\ \A j, k \in 1..Len(p.out) :
                     j # k => p.out[j].index # p.out[k].index
               /\ \A j \in 1..Len(p.out) : p.out[j].index \in 1..Len(p.in)

(* Two subscriptions, two events: one refused in the scan, one from        *)
(* poll().                                                                 *)
C18_Witness ==
    /\ th["t1"].pc = "poll_out"
    /\ Len(th["t1"].in) = 2
    /\ th["t1"].nevents = 2
    /\ th["t1"].ret = 1
    /\ th["t1"].out[1].error = CLOUDABI_EBADF
    /\ th["t1"].out[2].flags = "EVENT_FD_READWRITE_HANGUP"

(* The call went through poll(): it was not the single-clock sleep. *)
GeneralPoll(p) == ~(Len(p.in) = 1 /\ p.in[1].type = "CLOCK")

(* The events that say the timer ran out. *)
ClockEvents(p) ==
    {k \in 1..Len(p.out) : p.out[k].type = "CLOCK" /\ p.out[k].error = OK}

(* The events for FD_READ and FD_WRITE subscriptions. *)
DescriptorEvents(p) ==
    {k \in 1..Len(p.out) : p.out[k].type \in {"FD_READ", "FD_WRITE"}}

(* The one clock event, echoing the userdata of clock_subscription. *)
OneClockEvent(p) ==
    /\ Cardinality(ClockEvents(p)) = 1
    /\ \A k \in ClockEvents(p) :
          /\ p.out[k].index = p.clock_subscription
          /\ p.out[k].userdata = p.in[p.clock_subscription].userdata

(* C19 as amended: after a poll() that did not fail, reported no           *)
(* descriptor and was reached with no event written by the scan, a call    *)
(* with a relative clock subscription returns exactly one event, the       *)
(* clock event echoing that subscription's userdata; in every other case   *)
(* no clock event is written.                                              *)
C19_ClockEventOnlyWhenNothingElse ==
    \A t \in Threads :
        th[t].pc = "poll_out" /\ GeneralPoll(th[t]) =>
            LET p == th[t]
            IN IF /\ p.ret = 0
                  /\ p.clock_subscription # NULL
                  /\ \A i \in 1..Len(p.in) :
                        i = p.clock_subscription \/ p.pfds[i].fd # NoPollfd.fd
               THEN OneClockEvent(p) /\ p.nevents = 1
               ELSE ClockEvents(p) = {}

(* poll() timed out on a socket with nothing to read: the clock event      *)
(* carries the clock subscription's userdata, not the socket's.            *)
C19_Witness ==
    /\ th["t1"].pc = "poll_out"
    /\ Len(th["t1"].in) = 2
    /\ th["t1"].in[1].type = "FD_READ"
    /\ th["t1"].in[2].type = "CLOCK"
    /\ th["t1"].in[1].userdata # th["t1"].in[2].userdata
    /\ th["t1"].fos[1] # NULL
    /\ th["t1"].ret = 0
    /\ th["t1"].out = <<[userdata |-> th["t1"].in[2].userdata, error |-> OK,
                         type |-> "CLOCK", flags |-> "none", index |-> 2]>>

(* C19 as stated: with no descriptor event and a clock subscription there  *)
(* is exactly one clock event echoing its userdata, and with a descriptor  *)
(* event there is no clock event.                                          *)
C19_AsStated ==
    \A t \in Threads :
        th[t].pc = "poll_out" /\ GeneralPoll(th[t]) =>
            LET p == th[t]
            IN /\ DescriptorEvents(p) = {} /\ p.clock_subscription # NULL
                     => OneClockEvent(p)
               /\ DescriptorEvents(p) # {} => ClockEvents(p) = {}


-----------------------------------------------------------------------------
(* sys_file_link(): two leases.                                            *)

(* The rights a guest keeps on a directory it links in. *)
LinkRights == {"FILE_LINK_SOURCE", "FILE_LINK_TARGET"}

(* Pathnames handed to sys_file_link(). *)
LinkPaths ==
    {<<"f">>, <<"a", "/", "f">>, <<"s", "/", "f">>, <<"l", "/", "f">>,
     <<".", ".", "/", "f">>}

(* What sys_file_link() keeps while it waits for the second path_get():    *)
(* pa1, the lease it holds.                                                *)
LinkCaller(op, fd2, path2, pa1) ==
    [op |-> op, fd2 |-> fd2, path2 |-> path2, pa1 |-> pa1]
NoLease == [fo |-> NULL]

(* path_get(&pa1, fd1, path1, path1len, CLOUDABI_RIGHT_FILE_LINK_SOURCE,   *)
(* 0, false)                                                               *)
sys_file_link(t, fd1, follow, path1, fd2, path2) ==
    path_get_enter(t, LinkCaller("file_link", fd2, path2, NoLease), fd1,
                   path1, follow, {"FILE_LINK_SOURCE"}, {}, FALSE)

(* path_get_nofollow(&pa2, fd2, path2, path2len,                           *)
(* CLOUDABI_RIGHT_FILE_LINK_TARGET, 0, true), up to its lookup, with pa1   *)
(* held.                                                                   *)
sys_file_link_second(t) ==
    /\ fault = "none"
    /\ th[t].pc = "leased"
    /\ pa.t = t
    /\ pa.caller.op = "file_link"
    /\ LET p == PathArguments(t, LinkCaller("file_link2", pa.caller.fd2,
                                   pa.caller.path2, [fo |-> pa.fo]),
                              pa.caller.fd2, pa.caller.path2, FALSE,
                              {"FILE_LINK_TARGET"}, {}, TRUE)
       IN \/ /\ pa' = PathRefused(p, CLOUDABI_ENOMEM)
             /\ th' = [th EXCEPT ![t] = Idle]
          \/ /\ pa' = p
             /\ th' = [th EXCEPT ![t].pc = "path_get", ![t].fo = NULL]
    /\ UNCHANGED <<ft, objs, last, fault>>

(* The second path_get() failed and the error is returned at once. *)
sys_file_link_failed_leaking(t) ==
    /\ Running(t)
    /\ pa.pc = "done"
    /\ pa.t = t
    /\ pa.error # OK
    /\ pa.caller.op = "file_link2"
    /\ pa' = NoPath
    /\ last' = Step(t, "file_link", -1, -1, {}, {}, pa.error, -1, -1)
    /\ UNCHANGED <<ft, objs, th, fault>>

(* The second path_get() failed: path_put(&pa1), return error. *)
sys_file_link_failed(t) ==
    /\ Running(t)
    /\ pa.pc = "done"
    /\ pa.t = t
    /\ pa.error # OK
    /\ pa.caller.op = "file_link2"
    /\ objs' = fd_object_release(objs, pa.caller.pa1.fo)
    /\ pa' = NoPath
    /\ last' = Step(t, "file_link", -1, -1, {}, {}, pa.error, -1, -1)
    /\ UNCHANGED <<ft, th, fault>>

(* linkat(), then path_put(&pa1) and path_put(&pa2). *)
sys_file_link_linkat(t) ==
    /\ fault = "none"
    /\ th[t].pc = "leased"
    /\ pa.t = t
    /\ pa.caller.op = "file_link2"
    /\ objs' = fd_object_release(fd_object_release(objs, pa.caller.pa1.fo),
                                 pa.fo)
    /\ th' = [th EXCEPT ![t] = Idle]
    /\ pa' = NoPath
    /\ \E errno \in {OK, "host.EEXIST"} :
          last' = Step(t, "file_link", -1, -1, {}, {},
                       IF errno = OK THEN OK ELSE convert_errno(errno), -1, -1)
    /\ UNCHANGED <<ft, fault>>

-----------------------------------------------------------------------------
(* The runs of the calls that hold references for a while: t1 calls        *)
(* sys_sock_send(), sys_poll() and sys_file_link() on a table with a       *)
(* socket at descriptor 1 and a directory handle at descriptor 2, while    *)
(* t2 closes, restricts and inserts descriptors.                           *)

DirSocketTable ==
    fd_table_attach(
        fd_table_attach(fd_table_grow(fd_table_init, 0, 2), 1, 1,
                        PollRights, {}),
        2, 2, LinkRights, {})

DirSocketObjects ==
    LET one == fd_object_set_number(
                   fd_object_new([o \in ObjIds |-> FreedObject], 1,
                                 "SOCKET_STREAM"), 1, "socket")
    IN fd_object_set_number(fd_object_new(one, 2, "DIRECTORY"), 2, HandleDir)

(* The subscription vectors of these runs: descriptors and one timer. *)
RefsVectors ==
    {in \in SubscriptionVectors :
        \A i \in 1..Len(in) :
            /\ in[i].userdata = 7
            /\ in[i].type \in {"FD_READ", "CLOCK"}
            /\ ~in[i].abstime
            /\ in[i].timeout.hi = 0}

InitRefs ==
    /\ ft = DirSocketTable
    /\ objs = DirSocketObjects
    /\ th = [t \in Threads |-> Idle]
    /\ last = Unrecorded
    /\ fault = "none"
    /\ pa = NoPath

NextRefs ==
    \/ /\ th["t1"].pc = "idle" /\ pa = NoPath
       /\ \E sock \in PollFds, si_fds \in SendFds :
             sys_sock_send("t1", sock, si_fds)
    \/ sys_sock_send_unlock("t1")
    \/ sys_sock_send_get("t1")
    \/ sys_sock_send_sendmsg("t1")
    \/ sys_sock_send_out("t1")
    \/ /\ th["t1"].pc = "idle" /\ pa = NoPath
       /\ \E in \in RefsVectors : sys_poll("t1", in)
    \/ sys_poll_sleep("t1")
    \/ sys_poll_unlock("t1")
    \/ sys_poll_host("t1")
    \/ sys_poll_out("t1")
    \/ /\ th["t1"].pc = "idle" /\ pa = NoPath
       /\ \E fd1, fd2 \in PollFds, path1, path2 \in LinkPaths :
             sys_file_link("t1", fd1, TRUE, path1, fd2, path2)
    \/ path_get_lookup("t1")
    \/ path_get_loop("t1")
    \/ pa # NoPath /\ pa.caller.op = "file_link" /\ path_get_failed("t1")
    \/ sys_file_link_second("t1")
    \/ sys_file_link_failed("t1")
    \/ sys_file_link_linkat("t1")
    \/ Interference("t2")

SpecRefs == InitRefs /\ [][NextRefs]_vars


-----------------------------------------------------------------------------
(* Properties of the references held.                                      *)

(* The references to object o held by the table's slots. *)
SlotRefs(o) == Cardinality({fd \in Slots(ft) : ft.entries[fd].object = o})

Count(seq, o) == Cardinality({i \in 1..Len(seq) : seq[i] = o})

(* The references to o thread t has acquired and not yet released: fo,     *)
(* the objects it has still to release, the fos[] of sys_sock_send() and   *)
(* sys_poll(), and the first lease of sys_file_link().                     *)
ThreadRefs(t, o) ==
    (IF th[t].fo = o THEN 1 ELSE 0)
    + Count(th[t].rel, o)
    + (IF "fos" \in DOMAIN th[t] THEN Count(th[t].fos, o) ELSE 0)
    + (IF pa # NoPath /\ pa.t = t /\ "pa1" \in DOMAIN pa.caller
          /\ pa.caller.pa1.fo = o THEN 1 ELSE 0)

(* Thread t is between system calls: its last call has returned. *)
Returned(t) == th[t].pc = "idle" /\ (pa = NoPath \/ pa.t # t)

(* C11: when a call has returned, on whatever path, it holds nothing: the  *)
(* reference count of every object is the number of slots that refer to    *)
(* it plus the references held by the calls still in progress, each of     *)
(* which holds exactly the references it has acquired and not released;    *)
(* no object that a slot or a call refers to has been freed.               *)
C11_NothingHeldOnReturn ==
    /\ \A o \in ObjIds :
          /\ objs[o].refcount =
                SlotRefs(o) + ThreadRefs("t1", o) + ThreadRefs("t2", o)
          /\ objs[o].alive <=> objs[o].refcount > 0
    /\ \A t \in Threads, o \in ObjIds : Returned(t) => ThreadRefs(t, o) = 0

(* sys_sock_send() failed on its second descriptor, has released the       *)
(* first and is about to return; the first is back to one reference.       *)
C11_Witness ==
    /\ th["t1"].pc = "send_out"
    /\ th["t1"].error = CLOUDABI_EBADF
    /\ th["t1"].nfos = 1
    /\ th["t1"].fos = <<>>
    /\ th["t2"].pc = "idle"
    /\ \E o \in ObjIds : objs[o].refcount = 1 /\ SlotRefs(o) = 1

-----------------------------------------------------------------------------
(* sys_file_readdir(): the directory stream of a directory object.         *)

MaxEntries == 3   \* entries of the longest host directory

DirentSize == 24             \* sizeof(cde), a cloudabi_dirent_t
CLOUDABI_DIRCOOKIE_START == 0

(* The host's directories.  Entry k has a name of k bytes, so that the     *)
(* records differ in size; the host's d_type of the entries goes through   *)
(* every kind of case the switch has.                                      *)
HostTypes == <<"DT_REG", "DT_DIR", "DT_WHT", "DT_FIFO">>

HostEntry(k) ==
    [d_name |-> [i \in 1..k |-> "n"], d_ino |-> 10 + k,
     d_type |-> HostTypes[(k % Len(HostTypes)) + 1]]

Listing(number) ==
    CASE number = "dir" -> [k \in 1..MaxEntries |-> HostEntry(k)]
      [] number = "one" -> [k \in 1..1 |-> HostEntry(k)]
      [] OTHER -> <<>>

HostDirectories == {"dir", "one", "empty"}

(* The DIR * a successful fdopendir() returns. *)
HostDir == NULL + 1

(* fdopendir(fd_number(fo)), when it succeeds: a stream at the beginning   *)
(* of the directory, which from now on owns the descriptor.                *)
fdopendir(fo) ==
    IF fo.fd_open THEN [fo EXCEPT !.dir_open = TRUE, !.pos = 0]
    ELSE [fo EXCEPT !.ebadf = TRUE]

(* telldir() after the entry at position pos has been read: an opaque      *)
(* value of the host, never that of the start.                             *)
telldir(pos) == pos * 7 + 3

rewinddir(fo) == 0

(* seekdir(dp, cookie): the position telldir() gave that value at; with a  *)
(* value telldir() never returned the position is unspecified.             *)
seekdir(fo, cookie) ==
    LET n == Len(Listing(fo.number))
        at == {k \in 1..n : telldir(k) = cookie}
    IN IF at # {} THEN at ELSE 0..n

(* The switch on de->d_type. *)
readdir_filetype(d_type) ==
    CASE d_type = "DT_BLK" -> "BLOCK_DEVICE"
      [] d_type = "DT_CHR" -> "CHARACTER_DEVICE"
      [] d_type = "DT_DIR" -> "DIRECTORY"
      [] d_type = "DT_FIFO" -> "SOCKET_STREAM"
      [] d_type = "DT_LNK" -> "SYMBOLIC_LINK"
      [] d_type = "DT_REG" -> "REGULAR_FILE"
      [] d_type = "DT_SOCK" -> "SOCKET_STREAM"
      [] OTHER -> "UNKNOWN"

Min(a, b) == IF a < b THEN a ELSE b

(* file_readdir_put(): the bytes of an element of elemsize that fit. *)
file_readdir_put(bufsize, bufused, elemsize) == Min(elemsize, bufsize - bufused)

(* The body of the while loop for the entries i..j of the directory: each  *)
(* becomes a record whose header and name are copied as far as they fit.   *)
(* A record of the buffer tells how many bytes of its header are there.    *)
RECURSIVE ReadEntries(_, _, _, _, _, _)
ReadEntries(entries, i, j, nbyte, buf, bufused) ==
    IF i > j THEN [buf |-> buf, bufused |-> bufused]
    ELSE LET de == entries[i]
             namlen == Len(de.d_name)
             header == file_readdir_put(nbyte, bufused, DirentSize)
             name == file_readdir_put(nbyte, bufused + header, namlen)
             cde == [d_next |-> telldir(i), d_ino |-> de.d_ino,
                     d_namlen |-> namlen,
                     d_type |-> readdir_filetype(de.d_type),
                     header |-> header,
                     d_name |-> SubSeq(de.d_name, 1, name)]
         IN ReadEntries(entries, i + 1, j, nbyte,
                        IF header > 0 THEN Append(buf, cde) ELSE buf,
                        bufused + header + name)

(* What a sys_file_readdir() did, and the host descriptor it did it on. *)
DirStep(fd, number, nbyte, cookie, err, buf, bufused) ==
    [op |-> "file_readdir", fd |-> fd, number |-> number, nbyte |-> nbyte,
     cookie |-> cookie, err |-> err, buf |-> buf, bufused |-> bufused]

(* sys_file_readdir() up to mutex_lock(&fo->directory.lock). *)
sys_file_readdir(t, fd, nbyte, cookie) ==
    /\ Running(t)
    /\ LET error == fd_table_get_entry(ft, fd, {"FILE_READDIR"}, {})
       IN IF error # OK
          THEN Return(DirStep(fd, "none", nbyte, cookie, error, <<>>, -1))
          ELSE /\ objs' = fd_object_get_locked(objs, ft, fd)
               /\ th' = [th EXCEPT ![t] = [pc |-> "readdir",
                                           fo |-> ft.entries[fd].object,
                                           rel |-> <<>>, fd |-> fd,
                                           nbyte |-> nbyte, cookie |-> cookie]]
               /\ UNCHANGED <<ft, last, fault, pa>>

(* The object once the stream is there. *)
DirInstalled(fo) ==
    IF fo.handle # NULL THEN fo
    ELSE [fdopendir(fo) EXCEPT !.handle = HostDir,
                               !.offset = CLOUDABI_DIRCOOKIE_START]

(* A stream that is never moved to the cookie. *)
DirSought_cached(fo, cookie) == {fo}

(* if (fo->directory.offset != cookie): rewinddir() or seekdir(). *)
DirSought(fo, cookie) ==
    IF fo.offset = cookie THEN {fo}
    ELSE {[fo EXCEPT !.pos = p, !.offset = cookie] :
             p \in IF cookie = CLOUDABI_DIRCOOKIE_START THEN {rewinddir(fo)}
                   ELSE seekdir(fo, cookie)}

(* The while loop until readdir() returns NULL, which it does after entry  *)
(* j: at the end of the directory with errno 0, or anywhere with an error. *)
DirRead(fo, nbyte, j, errno) ==
    LET read == ReadEntries(Listing(fo.number), fo.pos + 1, j, nbyte, <<>>, 0)
    IN [fo |-> [fo EXCEPT !.pos = j,
                          !.offset = IF j > fo.pos THEN telldir(j) ELSE @],
        buf |-> read.buf, bufused |-> read.bufused,
        error |-> IF errno = "0" \/ read.bufused > 0 THEN OK
                  ELSE convert_errno(errno)]

(* while (nbyte > 0): nbyte is never changed, so the loop is left through  *)
(* readdir() == NULL, or never entered.                                    *)
DirLoop(fo, nbyte) ==
    IF ~(nbyte > 0) THEN {[fo |-> fo, buf |-> <<>>, bufused |-> 0, error |-> OK]}
    ELSE LET n == Len(Listing(fo.number))
         IN {DirRead(fo, nbyte, n, "0")}
            \cup {DirRead(fo, nbyte, j, "host.ENOENT") : j \in fo.pos..n}

(* sys_file_readdir() from mutex_lock() on: the section under the          *)
(* directory's lock, then fd_object_release().                             *)
sys_file_readdir_locked(t) ==
    /\ fault = "none"
    /\ th[t].pc = "readdir"
    /\ LET o == th[t].fo
           step(err, buf, bufused) ==
               DirStep(th[t].fd, fd_number(objs, o), th[t].nbyte, th[t].cookie,
                       err, buf, bufused)
       IN \/ /\ objs[o].handle = NULL
             /\ objs' = fd_object_release(objs, o)
             /\ last' = step(convert_errno("host.ENOMEM"), <<>>, -1)
          \/ \E fo \in DirSought(DirInstalled(objs[o]), th[t].cookie) :
                \E r \in DirLoop(fo, th[t].nbyte) :
                   /\ objs' = fd_object_release([objs EXCEPT ![o] = r.fo], o)
                   /\ last' = step(r.error, r.buf, r.bufused)
    /\ th' = [th EXCEPT ![t] = Idle]
    /\ UNCHANGED <<ft, fault, pa>>

-----------------------------------------------------------------------------
(* The directory's runs: one directory object under two descriptors, as    *)
(* sys_fd_dup() leaves them, read by one thread while both close them.     *)

DirFds == {1, 2}

Buffers ==
    {0, 10, DirentSize + MaxEntries, 2 * DirentSize + 4,
     MaxEntries * (DirentSize + MaxEntries)}

Cookies == {CLOUDABI_DIRCOOKIE_START} \cup {telldir(k) : k \in 1..MaxEntries}

DirTable ==
    [entries |-> [i \in 0..3 |-> IF i \in DirFds
                                 THEN fd_entry(1, {"FILE_READDIR"}, {})
                                 ELSE UnusedEntry],
     size |-> 4, used |-> 2]

DirObjects(number) ==
    refcount_acquire(
        fd_object_set_number(
            fd_object_new([o \in ObjIds |-> FreedObject], 1, "DIRECTORY"),
            1, number),
        1)

InitDir ==
    /\ ft = DirTable
    /\ \E number \in HostDirectories : objs = DirObjects(number)
    /\ th = [t \in Threads |-> Idle]
    /\ last = NoStep
    /\ fault = "none"
    /\ pa = NoPath

DirClose(t) ==
    \/ \E fd \in DirFds : sys_fd_close(t, fd)
    \/ ReleaseStep(t)

NextDir ==
    \/ \E fd \in DirFds \cup {0}, nbyte \in Buffers, cookie \in Cookies :
          sys_file_readdir("t1", fd, nbyte, cookie)
    \/ sys_file_readdir_locked("t1")
    \/ \E t \in Threads : DirClose(t)

SpecDir == InitDir /\ [][NextDir]_vars


-----------------------------------------------------------------------------
(* The directory stream's properties.                                      *)

(* C12: a directory object that had a directory stream installed has the   *)
(* stream closed exactly once by its teardown, and the descriptor not      *)
(* closed again after it; one without a stream has the descriptor closed   *)
(* exactly once; never are both closed.  So nothing of a freed object is   *)
(* left open, no close was made on what was closed already, and while the  *)
(* object lives the descriptor is open and the stream is open exactly when *)
(* directory.handle is set.                                                *)
C12_StreamClosedOnce ==
    \A o \in ObjIds :
        IF objs[o].alive
        THEN /\ objs[o].fd_open
             /\ ~objs[o].ebadf
             /\ objs[o].dir_open <=> objs[o].handle # NULL
        ELSE objs[o] = FreedObject

(* A sys_file_readdir() has read entries through the stream and its        *)
(* fd_object_release() was the last: the object with the stream is gone.   *)
C12_Witness ==
    /\ last.op = "file_readdir"
    /\ last.err = OK
    /\ last.buf # <<>>
    /\ ft.used = 0
    /\ ~objs[1].alive

(* The records of the buffer that are there in full. *)
DirComplete(cde) == cde.header = DirentSize /\ Len(cde.d_name) = cde.d_namlen

DirReturned(buf) == SelectSeq(buf, DirComplete)

(* A buffer that holds a record of any entry. *)
HoldsARecord(nbyte) == nbyte >= DirentSize + MaxEntries

(* The entries are those of the directory that follow its first m, in      *)
(* order, and there is one if the directory has one.                       *)
ContinuesAfter(entries, number, m) ==
    LET listing == Listing(number)
    IN /\ m + Len(entries) <= Len(listing)
       /\ \A i \in 1..Len(entries) :
             /\ entries[i].d_ino = listing[m + i].d_ino
             /\ entries[i].d_name = listing[m + i].d_name
       /\ m < Len(listing) => entries # <<>>

(* The place in the directory of a returned entry. *)
DirIndex(number, cde) ==
    CHOOSE k \in 1..Len(Listing(number)) : Listing(number)[k].d_ino = cde.d_ino

(* C20: with a buffer that holds at least one record, sys_file_readdir()   *)
(* with the start cookie returns a prefix of the directory's entries,      *)
(* whatever the cached offset was, and with the d_next of the last entry   *)
(* the call before returned it returns the entries that follow that entry, *)
(* none skipped and none repeated.                                         *)
C20_CookieContinues ==
    [][(/\ th["t1"].pc = "readdir"
        /\ th'["t1"].pc = "idle"
        /\ last'.err = OK
        /\ HoldsARecord(last'.nbyte))
       => /\ last'.cookie = CLOUDABI_DIRCOOKIE_START
                => ContinuesAfter(DirReturned(last'.buf), last'.number, 0)
          /\ (/\ last.op = "file_readdir"
              /\ last.err = OK
              /\ DirReturned(last.buf) # <<>>
              /\ last'.cookie =
                     DirReturned(last.buf)[Len(DirReturned(last.buf))].d_next)
                => ContinuesAfter(
                       DirReturned(last'.buf), last'.number,
                       DirIndex(last.number,
                                DirReturned(last.buf)[Len(DirReturned(last.buf))]))
      ]_vars

(* A call with the d_next of the first entry has returned the second entry *)
(* and no more, the cached offset being that of the end of the directory.  *)
C20_Witness ==
    /\ last.op = "file_readdir"
    /\ last.err = OK
    /\ last.number = "dir"
    /\ last.cookie = telldir(1)
    /\ last.nbyte = DirentSize + MaxEntries
    /\ Len(DirReturned(last.buf)) = 1
    /\ DirReturned(last.buf)[1].d_ino = Listing("dir")[2].d_ino
    /\ objs[1].alive
    /\ objs[1].offset = telldir(MaxEntries)


-----------------------------------------------------------------------------
(* sys_fd_close()'s contract.                                              *)

(* The system calls that put an object into an empty slot. *)
InsertingCalls == {"fd_create1", "fd_create2", "fd_table_insert_existing", "fd_dup"}

(* C14: sys_fd_close() of an occupied slot returns 0 with the slot empty   *)
(* and used one lower, the rest of the table as it was, so that a lookup   *)
(* of fd with no rights gives EBADF, and the slot stays empty until an     *)
(* inserting call fills it; the object is freed by the release that        *)
(* follows exactly when no other slot refers to it.  On an empty slot or a *)
(* number beyond the table it returns EBADF and changes nothing.           *)
C14_Close ==
    [][/\ (th["t1"].pc = "idle" /\ last'.op = "fd_close")
          => IF last'.err = OK
             THEN /\ Occupied(ft, last'.fd)
                  /\ ~Occupied(ft', last'.fd)
                  /\ ft'.used = ft.used - 1
                  /\ ft'.size = ft.size
                  /\ \A g \in Slots(ft) \ {last'.fd} : ft'.entries[g] = ft.entries[g]
                  /\ fd_table_get_entry(ft', last'.fd, {}, {}) = CLOUDABI_EBADF
                  /\ objs' = objs
                  /\ th'["t1"].rel = <<ft.entries[last'.fd].object>>
             ELSE /\ last'.err = CLOUDABI_EBADF
                  /\ ~Occupied(ft, last'.fd)
                  /\ UNCHANGED <<ft, objs, th, fault>>
       /\ (th["t1"].pc = "release" /\ last.op = "fd_close")
          => LET o == Head(th["t1"].rel)
             IN /\ ~objs'[o].alive <=> SlotRefs(o) = 0
                /\ objs'[o].alive => objs'[o].refcount = objs[o].refcount - 1
                /\ \A p \in ObjIds \ {o} : objs'[p] = objs[p]
                /\ ft' = ft
       /\ \A fd \in FdArgs :
             (~Occupied(ft, fd) /\ Occupied(ft', fd)) => last'.op \in InsertingCalls
      ]_vars

(* A close has returned 0: its slot is empty, and the object it detached   *)
(* is still referred to by a duplicate, so the release to come leaves it.  *)
C14_Witness ==
    /\ last.op = "fd_close"
    /\ last.err = OK
    /\ th["t1"].pc = "release"
    /\ ~Occupied(ft, last.fd)
    /\ SlotRefs(Head(th["t1"].rel)) = 1
    /\ objs[Head(th["t1"].rel)].refcount = 2


-----------------------------------------------------------------------------
(* fd_table_insert_fdpair() statement by statement: the two attachments    *)
(* are separate steps of a thread that holds the table's lock for writing  *)
(* from the first to the second.                                           *)

MaxPairUsed == MaxUsed + 1   \* pairs are inserted while used stays <= this

PairThread(lock, out1, fo1, fo2) ==
    [pc |-> "pair_second", fo |-> NULL, rel |-> <<>>, lock |-> lock,
     out1 |-> out1, fo1 |-> fo1, fo2 |-> fo2]

(* The two fd_object_new(), rwlock_wrlock(), fd_table_grow(ft, 0, 2) and   *)
(* the first fd_table_unused()/fd_table_attach(); lock is what the thread  *)
(* holds when the step is over.                                            *)
PairFirst(t, lock) ==
    /\ Running(t)
    /\ LockFree
    /\ Cardinality(FreeIds(objs)) >= 2
    /\ ft.used + 2 <= MaxPairUsed
    /\ LET fo1 == NewId(objs)
           os1 == fd_object_set_number(
                      fd_object_new(objs, fo1, "SOCKET_STREAM"), fo1, "socket")
           fo2 == NewId(os1)
           os2 == fd_object_set_number(
                      fd_object_new(os1, fo2, "SOCKET_STREAM"), fo2, "socket")
           grown == fd_table_grow(ft, 0, 2)
       IN \/ /\ NeedsGrow(ft, 0, 2)
             /\ objs' = os2
             /\ th' = [th EXCEPT ![t] = [pc |-> "release", fo |-> NULL,
                                         rel |-> <<fo1, fo2>>]]
             /\ last' = Step(t, "fd_create2", -1, -1, {}, {},
                             CLOUDABI_ENOMEM, -1, -1)
             /\ UNCHANGED <<ft, fault, pa>>
          \/ \E out1 \in fd_table_unused(grown) :
                /\ objs' = os2
                /\ Attached(fd_table_attach(grown, out1, fo1, RIGHTS_SOCKET_BASE,
                                            RIGHTS_SOCKET_INHERITING))
                /\ th' = [th EXCEPT ![t] = PairThread(lock, out1, fo1, fo2)]
                /\ UNCHANGED <<last, pa>>

(* The first attachment followed by rwlock_unlock(). *)
fd_table_insert_fdpair_first_unlocking(t) == PairFirst(t, "none")

(* fd_table_insert_fdpair() up to the first fd_table_attach(). *)
fd_table_insert_fdpair_first(t) == PairFirst(t, "wr")

(* The second fd_table_unused()/fd_table_attach(), rwlock_unlock() and the *)
(* return of sys_fd_create2() with the two descriptors.                    *)
fd_table_insert_fdpair_second(t) ==
    /\ fault = "none"
    /\ th[t].pc = "pair_second"
    /\ \E out2 \in fd_table_unused(ft) :
          /\ Attached(fd_table_attach(ft, out2, th[t].fo2, RIGHTS_SOCKET_BASE,
                                      RIGHTS_SOCKET_INHERITING))
          /\ last' = Step(t, "fd_create2", -1, -1, {}, {}, OK, th[t].out1, out2)
    /\ th' = [th EXCEPT ![t] = Idle]
    /\ UNCHANGED <<objs, pa>>

(* The system calls of another thread that look at the table, each of      *)
(* which starts by taking the table's lock: a lookup, a duplication, a     *)
(* close and the scan of sys_poll().                                       *)
PairFds == 0..(2 * MaxPairUsed - 1)

PairVectors ==
    {<<subscription("FD_READ", fd, FALSE, NoTimeout, 7)>> : fd \in PollFds}

Observe(t) ==
    /\ LockFree
    /\ \/ \E fd \in PairFds : sys_fd_read(t, fd)
       \/ \E from \in PairFds : sys_fd_dup(t, from)
       \/ \E fd \in PairFds : sys_fd_close(t, fd)
       \/ th[t].pc = "idle" /\ \E in \in PairVectors : sys_poll(t, in)

(* What a thread does without the table's lock. *)
Unlocked(t) ==
    \/ HostCallAndRelease(t)
    \/ ReleaseStep(t)
    \/ sys_poll_unlock(t)
    \/ sys_poll_host(t)
    \/ sys_poll_out(t)

InitPair ==
    /\ ft = fd_table_init
    /\ objs = [o \in ObjIds |-> FreedObject]
    /\ th = [t \in Threads |-> Idle]
    /\ last = Unrecorded
    /\ fault = "none"
    /\ pa = NoPath

NextPair ==
    \/ fd_table_insert_fdpair_first("t1")
    \/ fd_table_insert_fdpair_second("t1")
    \/ LockFree /\ \E fd \in PairFds : sys_fd_close("t1", fd)
    \/ ReleaseStep("t1")
    \/ Observe("t2")
    \/ Unlocked("t2")

SpecPair == InitPair /\ [][NextPair]_vars


-----------------------------------------------------------------------------
(* The pair's properties.                                                  *)

(* Exactly one of the two new descriptors is in the table. *)
HalfPair(t) ==
    /\ th[t].pc = "pair_second"
    /\ SlotRefs(th[t].fo1) = 1
    /\ SlotRefs(th[t].fo2) = 0

(* The table but for slot fd is as it was. *)
OnlySlotChanged(fd) ==
    /\ ft'.size = ft.size
    /\ \A g \in Slots(ft) \ {fd} : ft'.entries[g] = ft.entries[g]

(* C15: fd_table_insert_fdpair() is atomic to the other threads: while     *)
(* exactly one of its two descriptors is in the table no lookup,           *)
(* duplication, close or poll scan of another thread can take place and    *)
(* the table is changed by nothing but the second attachment; the two      *)
(* descriptors it returns are different, and their slots were empty.       *)
C15_PairAtomic ==
    /\ [](\A t \in Threads :
             th[t].pc = "pair_second"
                => /\ HalfPair(t)
                   /\ \A u \in Threads \ {t} : ~ENABLED Observe(u))
    /\ [][/\ (th["t1"].pc = "idle" /\ th'["t1"].pc = "pair_second")
             => /\ ~Occupied(ft, th'["t1"].out1)
                /\ ft'.entries[th'["t1"].out1].object = th'["t1"].fo1
                /\ \A g \in Slots(ft) \ {th'["t1"].out1} :
                      ft'.entries[g] = ft.entries[g]
                /\ \A g \in Slots(ft') \ (Slots(ft) \cup {th'["t1"].out1}) :
                      ~Occupied(ft', g)
          /\ (th["t1"].pc = "pair_second" /\ th'["t1"].pc = "pair_second")
             => ft' = ft
          /\ (th["t1"].pc = "pair_second" /\ th'["t1"].pc # "pair_second")
             => \E out2 \in Slots(ft) \ {th["t1"].out1} :
                   /\ ~Occupied(ft, out2)
                   /\ ft'.entries[out2].object = th["t1"].fo2
                   /\ OnlySlotChanged(out2)
                   /\ ft'.used = ft.used + 1
                   /\ ft'.entries[th["t1"].out1].object = th["t1"].fo1
          /\ (th["t2"].pc = "idle" /\ th'["t2"] # th["t2"])
             => th["t1"].pc # "pair_second"
         ]_vars

(* The first descriptor of a pair is in the table beside an older one,     *)
(* the second is not, and the other thread is about to make a call.        *)
C15_Witness ==
    /\ HalfPair("t1")
    /\ th["t2"].pc = "idle"
    /\ ft.used = 2
    /\ \E fd \in PollFds : Occupied(ft, fd) /\ fd # th["t1"].out1


-----------------------------------------------------------------------------
(* The resolver on chains of symbolic links.                               *)

MaxChain == 129   \* links of the longest chain looked up

(* The name a chain of r links starts at. *)
ChainPath(r) == [i \in 1..r |-> "q"]

(* What the caller of this path_get() keeps across the call: its pathname. *)
ChainCaller(path) == [op |-> "lookup", path |-> path]

NextChain ==
    \/ /\ pa = NoPath
       /\ \E r \in 1..MaxChain, flags_follow \in BOOLEAN :
             path_get_enter("t1", ChainCaller(ChainPath(r)), 0, ChainPath(r),
                            flags_follow, {"FILE_OPEN"}, {}, TRUE)
    \/ path_get_lookup("t1")
    \/ path_get_loop("t1")
    \/ path_get_failed("t1")
    \/ path_put("t1")

SpecChain == InitPath /\ [][NextChain]_vars

(* C13: path_get() with follow on a chain of at most 127 symbolic links    *)
(* that ends in a file which is no link succeeds, unless an allocation     *)
(* failed, with every link expanded and the file as the residual path; on  *)
(* a chain of 128 links or more it fails with ELOOP, or with the failed    *)
(* allocation before it got that far.                                      *)
C13_ChainLimit ==
    (pa # NoPath /\ pa.pc = "done" /\ pa.flags_follow)
       => IF Len(pa.caller.path) <= 127
          THEN /\ pa.error \in {OK, CLOUDABI_ENOMEM}
               /\ pa.error = OK
                     => /\ pa.expansions = Len(pa.caller.path)
                        /\ pa.path = <<"f">>
                        /\ pa.fd = HandleDir
          ELSE /\ pa.error \in {"ELOOP", CLOUDABI_ENOMEM}
               /\ pa.error = "ELOOP" => pa.expansions = 128

(* The chain of 127 links has been followed to its end. *)
C13_Witness ==
    /\ pa # NoPath
    /\ pa.pc = "done"
    /\ pa.flags_follow
    /\ Len(pa.caller.path) = 127
    /\ pa.error = OK
    /\ pa.expansions = 127
    /\ th["t1"].pc = "leased"


-----------------------------------------------------------------------------
(* Reference counts over the table calls of two threads.                   *)

(* Every object's count is the slots that hold it plus the references the  *)
(* two threads hold, an object is alive exactly while its count is         *)
(* positive, and a torn-down object was closed once and freed once.        *)
CountsBalance ==
    \A o \in ObjIds :
       /\ objs[o].refcount =
             SlotRefs(o) + ThreadRefs("t1", o) + ThreadRefs("t2", o)
       /\ objs[o].alive <=> objs[o].refcount > 0
       /\ ~objs[o].alive => objs[o] = FreedObject

(* C21: while the process runs, each object's reference count is the       *)
(* number of slots holding it plus the references held by threads, an      *)
(* object is torn down exactly once, by the release that brings the count  *)
(* to zero, and no call accesses an object after it was torn down.         *)
C21_AsStated ==
    /\ fault = "none" => CountsBalance
    /\ fault \notin {"use-after-free", "freed-object"}


-----------------------------------------------------------------------------
(* sys_fd_dup() as its caller sees it. *)

(* The step is a sys_fd_dup() of thread t1 on an occupied slot. *)
DupOfOccupied ==
    th["t1"].pc = "idle" /\ last'.op = "fd_dup" /\ Occupied(ft, last'.fd)

(* The step left a copy of slot from in slot to and nothing else. *)
DupCopied(from, to) ==
    /\ to # from
    /\ ~Occupied(ft, to)
    /\ to \in Slots(ft')
    /\ ft'.entries[to] = ft.entries[from]
    /\ objs' = refcount_acquire(objs, ft.entries[from].object)
    /\ ft'.used = ft.used + 1
    /\ \A g \in Slots(ft) \ {to} : ft'.entries[g] = ft.entries[g]
    /\ \A g \in Slots(ft') \ (Slots(ft) \cup {to}) : ~Occupied(ft', g)

(* C22: sys_fd_dup(from) of an occupied slot returns a descriptor other    *)
(* than from whose slot was empty and now holds from's object with both of *)
(* from's rights, with the object's count and used one higher and every    *)
(* other slot unchanged, also when the call grows the table; the only      *)
(* other outcome is ENOMEM from the growth, with nothing changed.          *)
C22_AsStated ==
    [][DupOfOccupied
       => IF last'.err = OK
          THEN DupCopied(last'.fd, last'.out)
          ELSE /\ last'.err = CLOUDABI_ENOMEM
               /\ UNCHANGED <<ft, objs, th, fault>>
      ]_vars


-----------------------------------------------------------------------------
(* sys_fd_replace() as its caller sees it. *)

(* The count of object o went from what it was in os to n more in ns. *)
CountChanged(os, ns, o, n) ==
    /\ ns[o] = [os[o] EXCEPT !.refcount = os[o].refcount + n]
    /\ \A p \in ObjIds \ {o} : ns[p] = os[p]

(* C23: sys_fd_replace(from, to) of two different occupied slots returns 0 *)
(* with slot to holding from's object and both of from's rights, slot from *)
(* and every other slot, used and size as they were, and one reference     *)
(* more on from's object; the object that was at to loses one reference in *)
(* the release that follows (and is freed if that was its last).  When     *)
(* either slot is empty or beyond the table the call returns EBADF and     *)
(* changes nothing.                                                        *)
C23_Replace ==
    [][/\ (th["t1"].pc = "idle" /\ last'.op = "fd_replace"
           /\ last'.fd # last'.fd2)
          => IF Occupied(ft, last'.fd) /\ Occupied(ft, last'.fd2)
             THEN /\ last'.err = OK
                  /\ fault' = "none"
                  /\ ft'.entries[last'.fd2] = ft.entries[last'.fd]
                  /\ \A g \in Slots(ft) \ {last'.fd2} :
                        ft'.entries[g] = ft.entries[g]
                  /\ ft'.used = ft.used
                  /\ ft'.size = ft.size
                  /\ CountChanged(objs, objs', ft.entries[last'.fd].object, 1)
                  /\ th'["t1"].rel = <<ft.entries[last'.fd2].object>>
             ELSE /\ last'.err = CLOUDABI_EBADF
                  /\ UNCHANGED <<ft, objs, th, fault>>
       /\ (th["t1"].pc = "release" /\ last.op = "fd_replace")
          => LET o == Head(th["t1"].rel)
             IN /\ ft' = ft
                /\ IF objs[o].refcount = 1
                   THEN /\ objs'[o] = FreedObject
                        /\ \A p \in ObjIds \ {o} : objs'[p] = objs[p]
                   ELSE CountChanged(objs, objs', o, -1)
      ]_vars

(* A replace of slot 1 by slot 0 has returned 0: the two slots hold one    *)
(* object, now with two references, under the same rights, and the object  *)
(* that was at slot 1 is about to lose its last reference.                 *)
C23_Witness ==
    /\ last.op = "fd_replace" /\ last.err = OK
    /\ last.fd = 0 /\ last.fd2 = 1
    /\ th["t1"].pc = "release"
    /\ Occupied(ft, 0) /\ ft.entries[1] = ft.entries[0]
    /\ objs[ft.entries[0].object].refcount = 2
    /\ Head(th["t1"].rel) # ft.entries[0].object
    /\ objs[Head(th["t1"].rel)].refcount = 1


(* C24: sys_fd_replace(fd, fd) of an occupied slot returns 0 and leaves    *)
(* the slot with the object and the rights it had and the table otherwise  *)
(* as it was; the reference it acquires is the one it releases, so the     *)
(* object's count, less what the call has still to release, is unchanged,  *)
(* and the process does not fault on the pointer fd_table_detach() has     *)
(* cleared.                                                                *)
C24_AsStated ==
    [][(th["t1"].pc = "idle" /\ last'.op = "fd_replace"
        /\ last'.fd = last'.fd2 /\ Occupied(ft, last'.fd))
       => LET o == ft.entries[last'.fd].object
          IN /\ last'.err = OK
             /\ fault' = "none"
             /\ ft' = ft
             /\ objs'[o].refcount - Count(th'["t1"].rel, o) = objs[o].refcount
             /\ \A p \in ObjIds \ {o} : objs'[p] = objs[p]
      ]_vars


-----------------------------------------------------------------------------
(* C25: in no sequence of calls does an assertion of fd_table_attach() or  *)
(* fd_table_detach() fire: every attachment (from fd_table_insert,         *)
(* fd_table_insert_fdpair, fd_table_insert_existing with whatever number   *)
(* its caller chose, sys_fd_dup, sys_fd_replace) finds its slot inside the *)
(* table and empty, and every detachment finds its slot occupied.          *)
C25_AsStated == fault # "abort"


-----------------------------------------------------------------------------
(* fd_table_grow() on the tables the calls build. *)

RECURSIVE IsDoubling(_, _)
(* to is from doubled some number of times. *)
IsDoubling(from, to) == from = to \/ (from < to /\ IsDoubling(from * 2, to))

(* What a successful fd_table_grow(t, min, incr) promises of its result g. *)
GrowContract(t, g, min, incr) ==
    /\ g.size > min
    /\ g.size >= 2 * (t.used + incr)
    /\ IsDoubling(IF t.size = 0 THEN 1 ELSE t.size, g.size)
    /\ g.used = t.used
    /\ DOMAIN g.entries = Slots(g)
    /\ \A i \in Slots(t) : g.entries[i] = t.entries[i]
    /\ \A i \in Slots(g) \ Slots(t) : g.entries[i].object = NULL

(* The growths the calls ask for: fd_table_grow(ft, 0, 1) of                *)
(* fd_table_insert() and sys_fd_dup(), (ft, 0, 2) of                        *)
(* fd_table_insert_fdpair(), (ft, in, 1) of fd_table_insert_existing().     *)
GrowArguments == {<<min, incr>> \in FdArgs \X {1, 2} : min = 0 \/ incr = 1}

(* C26: a successful fd_table_grow(ft, min, incr) leaves size > min and    *)
(* size >= 2 * (used + incr), the new size being the old one (1 for an     *)
(* empty table) doubled some number of times, every slot there was with    *)
(* its object and rights at its index, and every added slot empty; a call  *)
(* whose growth fails reports it and leaves size, used and every slot as   *)
(* they were, and the size changes in no other step.                       *)
C26_Grow ==
    /\ [](\A a \in GrowArguments :
             GrowContract(ft, fd_table_grow(ft, a[1], a[2]), a[1], a[2]))
    /\ [][/\ ft'.size # ft.size
             => /\ last'.op \in InsertingCalls /\ last'.err = OK
                /\ IsDoubling(IF ft.size = 0 THEN 1 ELSE ft.size, ft'.size)
                /\ \A i \in Slots(ft) \ {last'.fd, last'.out, last'.out2} :
                      ft'.entries[i] = ft.entries[i]
                /\ \A i \in Slots(ft') \ (Slots(ft) \cup
                                          {last'.fd, last'.out, last'.out2}) :
                      ft'.entries[i].object = NULL
          /\ (th["t1"].pc = "idle" /\ last'.op \in InsertingCalls
              /\ last'.err = CLOUDABI_ENOMEM)
             => ft' = ft
         ]_vars

(* sys_fd_dup() has returned ENOMEM on a table of two slots, one of them   *)
(* occupied, which it has left as it was and which a successful            *)
(* fd_table_grow(ft, 0, 1) takes to four slots.                            *)
C26_Witness ==
    /\ last.op = "fd_dup" /\ last.err = CLOUDABI_ENOMEM
    /\ ft.size = 2 /\ ft.used = 1 /\ Occupied(ft, 1)
    /\ NeedsGrow(ft, 0, 1)
    /\ fd_table_grow(ft, 0, 1).size = 4
    /\ fd_table_grow(ft, 0, 1).entries[1] = ft.entries[1]


-----------------------------------------------------------------------------
(* fd_table_unused(), one random_uniform() at a time.                      *)
(*                                                                         *)
(* The three callers take the write lock, grow the table and call          *)
(* fd_table_unused(); the loop of fd_table_unused() is one step for each   *)
(* number random_uniform(ft->size) gives, and the attachment that follows  *)
(* its return is a step of its own.                                        *)

(* A thread inside fd_table_unused(): the call it serves, the objects that *)
(* call has still to attach, the slot and staleness of sys_fd_dup()'s fe,  *)
(* and the last number random_uniform() gave.                              *)
ProbeThread(call, fos, from, stale) ==
    [pc |-> "unused", fo |-> NULL, rel |-> <<>>, lock |-> "wr", call |-> call,
     fos |-> fos, from |-> from, stale |-> stale, fd |-> -1]

(* fd_table_insert() up to its call of fd_table_unused(). *)
fd_table_insert_locked(t) ==
    /\ Running(t)
    /\ LockFree
    /\ FreeIds(objs) # {}
    /\ ft.used + 1 <= MaxUsed
    /\ LET fo == NewId(objs)
       IN /\ objs' = fd_object_set_number(
                         fd_object_new(objs, fo, "SHARED_MEMORY"), fo, "shm")
          /\ \/ /\ NeedsGrow(ft, 0, 1)
                /\ th' = [th EXCEPT ![t] = [pc |-> "release", fo |-> NULL,
                                            rel |-> <<fo>>]]
                /\ UNCHANGED ft
             \/ /\ ft' = fd_table_grow(ft, 0, 1)
                /\ th' = [th EXCEPT ![t] =
                             ProbeThread("fd_create1", <<fo>>, -1, FALSE)]
    /\ UNCHANGED <<last, fault, pa>>

(* fd_table_insert_fdpair() up to its first call of fd_table_unused(). *)
fd_table_insert_fdpair_locked(t) ==
    /\ Running(t)
    /\ LockFree
    /\ Cardinality(FreeIds(objs)) >= 2
    /\ ft.used + 2 <= MaxPairUsed
    /\ LET fo1 == NewId(objs)
           os1 == fd_object_set_number(
                      fd_object_new(objs, fo1, "SOCKET_STREAM"), fo1, "socket")
           fo2 == NewId(os1)
       IN /\ objs' = fd_object_set_number(
                         fd_object_new(os1, fo2, "SOCKET_STREAM"), fo2, "socket")
          /\ \/ /\ NeedsGrow(ft, 0, 2)
                /\ th' = [th EXCEPT ![t] = [pc |-> "release", fo |-> NULL,
                                            rel |-> <<fo1, fo2>>]]
                /\ UNCHANGED ft
             \/ /\ ft' = fd_table_grow(ft, 0, 2)
                /\ th' = [th EXCEPT ![t] =
                             ProbeThread("fd_create2", <<fo1, fo2>>, -1, FALSE)]
    /\ UNCHANGED <<last, fault, pa>>

(* sys_fd_dup() up to its call of fd_table_unused(). *)
sys_fd_dup_locked(t, from) ==
    /\ Running(t)
    /\ LockFree
    /\ ft.used + 1 <= MaxUsed
    /\ fd_table_get_entry(ft, from, {}, {}) = OK
    /\ \/ NeedsGrow(ft, 0, 1) /\ UNCHANGED <<ft, th>>
       \/ /\ ft' = fd_table_grow(ft, 0, 1)
          /\ th' = [th EXCEPT ![t] =
                       ProbeThread("fd_dup", <<>>, from, NeedsGrow(ft, 0, 1))]
    /\ UNCHANGED <<objs, last, fault, pa>>

(* One turn of the loop that returns whatever random_uniform() gave. *)
fd_table_unused_probe_any(t, fd) ==
    /\ fault = "none"
    /\ th[t].pc = "unused"
    /\ th' = [th EXCEPT ![t].pc = "attach", ![t].fd = fd]
    /\ UNCHANGED <<ft, objs, last, fault, pa>>

(* The assertion of fd_table_unused() and one turn of its loop, in which   *)
(* random_uniform(ft->size) gives fd.                                      *)
fd_table_unused_probe(t, fd) ==
    /\ fault = "none"
    /\ th[t].pc = "unused"
    /\ IF ~(ft.size > ft.used)
       THEN Die("abort", Unrecorded)
       ELSE /\ th' = [th EXCEPT ![t].pc = IF ft.entries[fd].object = NULL
                                          THEN "attach" ELSE "unused",
                                ![t].fd = fd]
            /\ UNCHANGED <<ft, objs, last, fault, pa>>

(* What the caller does with the number fd_table_unused() returned:        *)
(* fd_table_attach() and, but for the first of a pair, rwlock_unlock().    *)
ProbeAttach(t) ==
    /\ fault = "none"
    /\ th[t].pc = "attach"
    /\ LET fd == th[t].fd
           call == th[t].call
       IN IF ~AttachPre(ft, fd) THEN Die("abort", Unrecorded)
          ELSE IF call = "fd_create1"
          THEN /\ Attached(fd_table_attach(ft, fd, Head(th[t].fos),
                                           RIGHTS_SHARED_MEMORY_BASE,
                                           RIGHTS_SHARED_MEMORY_INHERITING))
               /\ th' = [th EXCEPT ![t] = Idle]
               /\ UNCHANGED <<objs, last, pa>>
          ELSE IF call = "fd_create2"
          THEN /\ Attached(fd_table_attach(ft, fd, Head(th[t].fos),
                                           RIGHTS_SOCKET_BASE,
                                           RIGHTS_SOCKET_INHERITING))
               /\ th' = [th EXCEPT ![t] =
                            IF Len(th[t].fos) = 2
                            THEN [@ EXCEPT !.pc = "unused", !.fd = -1,
                                           !.fos = Tail(@)]
                            ELSE Idle]
               /\ UNCHANGED <<objs, last, pa>>
          ELSE \E fe \in IF th[t].stale
                         THEN StaleEntries(ft.entries[th[t].from])
                         ELSE {ft.entries[th[t].from]} :
                  IF fe.object = NULL THEN Die("SIGSEGV", Unrecorded)
                  ELSE IF ~objs[fe.object].alive
                  THEN Die("freed-object", Unrecorded)
                  ELSE /\ objs' = refcount_acquire(objs, fe.object)
                       /\ Attached(fd_table_attach(ft, fd, fe.object,
                                      fe.rights_base, fe.rights_inheriting))
                       /\ th' = [th EXCEPT ![t] = Idle]
                       /\ UNCHANGED <<last, pa>>

NextProbe ==
    \/ fd_table_insert_locked("t1")
    \/ fd_table_insert_fdpair_locked("t1")
    \/ \E from \in FdArgs : sys_fd_dup_locked("t1", from)
    \/ \E fd \in Slots(ft) : fd_table_unused_probe("t1", fd)
    \/ ProbeAttach("t1")
    \/ \E t \in Threads : LockFree /\ \E fd \in PairFds : sys_fd_close(t, fd)
    \/ \E t \in Threads : ReleaseStep(t)

SpecProbe == InitPair /\ [][NextProbe]_vars

(* random_uniform() is fair: a number that would end the loop is not       *)
(* withheld for ever.                                                      *)
FairProbe ==
    WF_vars(\E fd \in Slots(ft) :
               ft.entries[fd].object = NULL /\ fd_table_unused_probe("t1", fd))

SpecProbeFair == SpecProbe /\ FairProbe

(* C27: whenever fd_table_unused() is running (called by fd_table_insert,  *)
(* fd_table_insert_fdpair or sys_fd_dup after the growth) the table has an *)
(* empty slot; the number it returns is below size and that of an empty    *)
(* slot; and, random_uniform() being fair, it returns.                     *)
C27_Unused ==
    /\ [](th["t1"].pc = "unused"
          => /\ ft.size > ft.used
             /\ \E fd \in Slots(ft) : ~Occupied(ft, fd))
    /\ [](th["t1"].pc = "attach"
          => /\ th["t1"].fd \in Slots(ft)
             /\ ft.entries[th["t1"].fd].object = NULL)
    /\ (th["t1"].pc = "unused") ~> (th["t1"].pc = "attach")

(* The second fd_table_unused() of a pair has drawn the number of an       *)
(* occupied slot and goes round again.                                     *)
C27_Witness ==
    /\ th["t1"].pc = "unused"
    /\ th["t1"].call = "fd_create2" /\ Len(th["t1"].fos) = 1
    /\ th["t1"].fd \in Slots(ft)
    /\ Occupied(ft, th["t1"].fd)
    /\ fault = "none"


-----------------------------------------------------------------------------
(* Host descriptors on their way into the table.                           *)
(*                                                                         *)
(* A descriptor the host has just given (openat, socketpair, recvmsg) is   *)
(* kept beside the call that received it until that call returns: whether  *)
(* it is open, and whether something closed it when it was closed already. *)
(* Descriptor i of the call is the number of the object made for it.       *)

MaxRecvFds == 2   \* descriptors one message delivers: 0..MaxRecvFds

HostDescriptor == [fd_open |-> TRUE, ebadf |-> FALSE]

(* The outcome of an insertion: the table, the objects, the descriptors    *)
(* handed in, the error and the numbers given out.                         *)
Inserted(t, os, host, error, out) ==
    [ft |-> t, objs |-> os, host |-> host, error |-> error, out |-> out]

(* fd_table_insert_fd(ft, in, type, rights_base, rights_inheriting, out)   *)
(* on host descriptor h: fd_object_new() fails, or fd_table_insert()'s     *)
(* growth fails, or the object is attached.  fd_object_release() of the    *)
(* new object closes its number, which is h.                               *)
fd_table_insert_fd(t, os, h, type, rights_base, rights_inheriting) ==
    {Inserted(t, os, <<close(h)>>, CLOUDABI_ENOMEM, <<-1>>)}
    \cup
    (IF FreeIds(os) = {} THEN {}
     ELSE LET fo == NewId(os)
              os1 == fd_object_set_number(fd_object_new(os, fo, type), fo, "in")
              grown == fd_table_grow(t, 0, 1)
          IN (IF NeedsGrow(t, 0, 1)
              THEN {Inserted(t, fd_object_release(os1, fo), <<close(h)>>,
                             CLOUDABI_ENOMEM, <<-1>>)}
              ELSE {})
             \cup
             {Inserted(fd_table_attach(grown, out, fo, rights_base,
                                       rights_inheriting),
                       os1, <<h>>, OK, <<out>>) : out \in fd_table_unused(grown)})

(* fd_table_insert_fdpair(ft, in, type, ...) on host descriptors h1, h2:   *)
(* the first or the second fd_object_new() fails, or the growth fails, or  *)
(* both objects are attached.                                              *)
fd_table_insert_fdpair(t, os, h1, h2) ==
    {Inserted(t, os, <<close(h1), close(h2)>>, CLOUDABI_ENOMEM, <<-1, -1>>)}
    \cup
    (IF FreeIds(os) = {} THEN {}
     ELSE LET fo1 == NewId(os)
              os1 == fd_object_set_number(
                         fd_object_new(os, fo1, "SOCKET_STREAM"), fo1, "in")
          IN {Inserted(t, fd_object_release(os1, fo1), <<close(h1), close(h2)>>,
                       CLOUDABI_ENOMEM, <<-1, -1>>)}
             \cup
             (IF FreeIds(os1) = {} THEN {}
              ELSE LET fo2 == NewId(os1)
                       os2 == fd_object_set_number(
                                  fd_object_new(os1, fo2, "SOCKET_STREAM"),
                                  fo2, "in")
                       grown == fd_table_grow(t, 0, 2)
                   IN (IF NeedsGrow(t, 0, 2)
                       THEN {Inserted(t, fd_object_release(
                                             fd_object_release(os2, fo1), fo2),
                                      <<close(h1), close(h2)>>,
                                      CLOUDABI_ENOMEM, <<-1, -1>>)}
                       ELSE {})
                      \cup
                      {Inserted(fd_table_attach(
                                    fd_table_attach(grown, out[1], fo1,
                                        RIGHTS_SOCKET_BASE,
                                        RIGHTS_SOCKET_INHERITING),
                                    out[2], fo2, RIGHTS_SOCKET_BASE,
                                    RIGHTS_SOCKET_INHERITING),
                                os2, <<h1, h2>>, OK, out) :
                         out \in {o \in fd_table_unused(grown)
                                        \X fd_table_unused(grown) :
                                     o[1] # o[2]}}))

(* A thread in a call that installs descriptors: those the host gave it,   *)
(* how many of them it has dealt with, the numbers it gives out, and the   *)
(* error it returns.                                                       *)
InstallThread(call, host, done, out, error) ==
    [pc |-> "install", fo |-> NULL, rel |-> <<>>, call |-> call, host |-> host,
     done |-> done, out |-> out, error |-> error]

(* The end of sys_file_open(): openat() has given nfd;                     *)
(* fd_determine_type_rights() fails and nfd is closed, or                  *)
(* fd_table_insert_fd() is called and its result returned.                 *)
sys_file_open_nfd(t) ==
    /\ Running(t)
    /\ \/ /\ th' = [th EXCEPT ![t] =
                       InstallThread("file_open", <<close(HostDescriptor)>>, 1,
                                     <<-1>>, "EIO")]
          /\ UNCHANGED <<ft, objs>>
       \/ \E r \in fd_table_insert_fd(ft, objs, HostDescriptor, "REGULAR_FILE",
                                      RIGHTS_REGULAR_FILE_BASE,
                                      RIGHTS_REGULAR_FILE_INHERITING) :
             /\ ft' = r.ft
             /\ objs' = r.objs
             /\ th' = [th EXCEPT ![t] =
                          InstallThread("file_open", r.host, 1, r.out, r.error)]
    /\ UNCHANGED <<last, fault, pa>>

(* The end of sys_fd_create2(): socketpair() has given two descriptors and *)
(* fd_table_insert_fdpair() is called on them.                             *)
sys_fd_create2_fds(t) ==
    /\ Running(t)
    /\ \E r \in fd_table_insert_fdpair(ft, objs, HostDescriptor, HostDescriptor) :
          /\ ft' = r.ft
          /\ objs' = r.objs
          /\ th' = [th EXCEPT ![t] =
                       InstallThread("fd_create2", r.host, 2, r.out, r.error)]
    /\ UNCHANGED <<last, fault, pa>>

(* sys_sock_recv() up to the loop over the control message: the lookup of  *)
(* sock, recvmsg(), which delivers n descriptors, and the release.         *)
sys_sock_recv(t, sock, n) ==
    /\ Running(t)
    /\ fd_table_get_entry(ft, sock, {"FD_READ"}, {}) = OK
    /\ th' = [th EXCEPT ![t] =
                 InstallThread("sock_recv", [i \in 1..n |-> HostDescriptor], 0,
                               <<>>, OK)]
    /\ UNCHANGED <<ft, objs, last, fault, pa>>

(* What sys_sock_recv() does when the descriptor cannot be installed. *)
RecvRefused(h) == close(h)

(* One turn of the loop of sys_sock_recv(), on the next descriptor nfd:    *)
(* fd_determine_type_rights() fails, or fd_table_insert_fd() fails, and    *)
(* then close(nfd) and -1 in ri_fds; or the descriptor is installed.       *)
sys_sock_recv_install(t) ==
    /\ fault = "none"
    /\ th[t].pc = "install" /\ th[t].call = "sock_recv"
    /\ th[t].done < Len(th[t].host)
    /\ LET i == th[t].done + 1
           nfd == th[t].host[i]
           next(h, out) == [th EXCEPT ![t].host[i] = h, ![t].done = i,
                                      ![t].out = Append(@, out)]
       IN \/ /\ th' = next(RecvRefused(nfd), -1)
             /\ UNCHANGED <<ft, objs>>
          \/ \E r \in fd_table_insert_fd(ft, objs, nfd, "SOCKET_STREAM",
                                         RIGHTS_SOCKET_BASE,
                                         RIGHTS_SOCKET_INHERITING) :
                /\ ft' = r.ft
                /\ objs' = r.objs
                /\ th' = IF r.error # OK
                         THEN next(RecvRefused(r.host[1]), -1)
                         ELSE next(r.host[1], r.out[1])
    /\ UNCHANGED <<last, fault, pa>>

(* The call returns. *)
InstallReturn(t) ==
    /\ fault = "none"
    /\ th[t].pc = "install"
    /\ th[t].done = Len(th[t].host)
    /\ th' = [th EXCEPT ![t] = Idle]
    /\ UNCHANGED <<ft, objs, last, fault, pa>>

NextRecv ==
    \/ sys_file_open_nfd("t1")
    \/ sys_fd_create2_fds("t1")
    \/ \E sock \in PollFds, n \in 0..MaxRecvFds : sys_sock_recv("t1", sock, n)
    \/ sys_sock_recv_install("t1")
    \/ InstallReturn("t1")
    \/ \E fd \in PairFds : sys_fd_close("t1", fd)
    \/ ReleaseStep("t1")

SpecRecv == InitRefs /\ [][NextRecv]_vars

(* Descriptor i of the call thread t is in has been dealt with. *)
DealtWith(t, i) == th[t].pc = "install" /\ i \in 1..th[t].done

(* C28: a host descriptor the emulator has taken over is closed at most    *)
(* once, and one whose insertion failed (in sys_file_open, in              *)
(* fd_table_insert_fdpair, in sys_sock_recv) exactly once, sys_sock_recv   *)
(* giving -1 in its place; one that was installed is left open.            *)
C28_AsStated ==
    \A t \in Threads : \A i \in 1..MaxRecvFds :
       DealtWith(t, i)
       => /\ ~th[t].host[i].ebadf
          /\ th[t].host[i].fd_open <=> th[t].out[i] # -1


-----------------------------------------------------------------------------
(* Leases, with what the resolver allocates and opens kept beside them.    *)

(* path_get() up to the lookup, of a call whose strings and descriptors    *)
(* are kept: str_nullterminate() fails, or path is the first allocation.   *)
path_get_enter_counted(t, fd, upath, follow, nfc) ==
    /\ Running(t)
    /\ pa = NoPath
    /\ LET p == PathArguments(t, NoCaller, fd, upath, follow, {"FILE_OPEN"}, {},
                              nfc)
       IN \/ /\ pa' = PathRefused(
                         p @@ [heap |-> [PathHeap EXCEPT !.bufs = <<>>,
                                                         !.start = <<>>]],
                         CLOUDABI_ENOMEM)
             /\ UNCHANGED th
          \/ /\ pa' = p @@ [heap |-> PathHeap]
             /\ th' = [th EXCEPT ![t].pc = "path_get"]
    /\ UNCHANGED <<ft, objs, last, fault>>

(* What path_put() frees and closes: free(pa->path_start), and             *)
(* close(pa->fd) if fd_number(pa->fd_object) != pa->fd.                    *)
LeaseReleased(p, number) ==
    LET h == [HeapFree(p.heap, DOMAIN p.heap.start) EXCEPT !.start = <<>>]
    IN [p EXCEPT !.pc = "put",
                 !.heap = IF number = p.fd THEN h
                          ELSE IF h.open = <<>> THEN [h EXCEPT !.own = @ + 1]
                          ELSE [HeapClose(h, DOMAIN h.open) EXCEPT !.open = <<>>]]

(* path_put() of such a call. *)
path_put_counted(t) ==
    /\ fault = "none"
    /\ th[t].pc = "leased"
    /\ pa.t = t
    /\ objs' = fd_object_release(objs, pa.fo)
    /\ th' = [th EXCEPT ![t] = Idle]
    /\ pa' = LeaseReleased(pa, fd_number(objs, pa.fo))
    /\ UNCHANGED <<ft, last, fault>>

(* The caller of path_put() goes on. *)
LeaseForgotten(t) ==
    /\ Running(t)
    /\ pa.pc = "put"
    /\ pa.t = t
    /\ pa' = NoPath
    /\ UNCHANGED <<ft, objs, th, last, fault>>

(* The pathnames of these runs: through a and d, the links s and l. *)
LeasePaths == UNION {[1..n -> {"/", ".", "a", "d", "s", "l"}] : n \in 0..MaxPathLen}

NextLease ==
    \/ /\ pa = NoPath
       /\ \E upath \in LeasePaths, follow, nfc \in BOOLEAN :
             path_get_enter_counted("t1", 0, upath, follow, nfc)
    \/ path_get_lookup("t1")
    \/ path_get_loop("t1")
    \/ path_get_failed("t1")
    \/ path_put_counted("t1")
    \/ LeaseForgotten("t1")
    \/ sys_fd_close("t2", 0)
    \/ ReleaseStep("t2")

SpecLease == InitPath /\ [][NextLease]_vars

(* Every string allocated so far was freed once, through the pointer its   *)
(* allocation returned, and free() was given nothing else.                 *)
AllFreedOnce(h) == h.stray = 0 /\ \A i \in DOMAIN h.bufs : h.bufs[i] = 1

(* C29: no string of the resolver is freed twice or through a pointer      *)
(* other than the one its allocation returned, one still in use is not     *)
(* freed, and when the call is over (path_get() has failed, or path_put()  *)
(* has released the lease) each of them has been freed exactly once.       *)
C29_AsStated ==
    pa # NoPath
    => /\ pa.heap.stray = 0
       /\ \A i \in DOMAIN pa.heap.bufs : pa.heap.bufs[i] <= 1
       /\ \A l \in DOMAIN pa.heap.start : pa.heap.bufs[pa.heap.start[l]] = 0
       /\ (pa.pc = "put" \/ (pa.pc = "done" /\ pa.error # OK))
          => AllFreedOnce(pa.heap)

(* C30: when path_get() has succeeded and path_put() has released the      *)
(* lease, every directory descriptor the resolver opened has been closed   *)
(* exactly once and fds[0], the handle's own, not by the resolver; until   *)
(* then none is closed twice and those on the stack are open.              *)
C30_DirectoriesClosedOnce ==
    pa # NoPath
    => /\ pa.heap.own = 0
       /\ \A i \in DOMAIN pa.heap.dirs : pa.heap.dirs[i] <= 1
       /\ \A l \in DOMAIN pa.heap.open : pa.heap.dirs[pa.heap.open[l]] = 0
       /\ pa.pc = "put" => \A i \in DOMAIN pa.heap.dirs : pa.heap.dirs[i] = 1
       /\ pa.pc = "leased" => (pa.heap.open = <<>> <=> pa.fd = HandleDir)

(* A lease on a/d/ has been released: the resolver opened a and d, closed *)
(* the descriptor of a when it succeeded, and path_put() that of d; the    *)
(* handle's descriptor is open.                                            *)
C30_Witness ==
    /\ pa # NoPath
    /\ pa.pc = "put"
    /\ pa.heap.dirs = <<1, 1>>
    /\ pa.heap.own = 0
    /\ pa.fd = "D"
    /\ pa.expansions = 0
    /\ objs[1].alive /\ objs[1].fd_open


-----------------------------------------------------------------------------
(* Failed lookups.                                                         *)

(* C31: when path_get() has failed, for whatever reason, every directory   *)
(* descriptor it had opened has been closed exactly once and none is left  *)
(* on the stack, fds[0] was not closed by it, the reference it acquired on *)
(* the handle's object is given back (the count is again the slots and     *)
(* the other thread's, the object torn down at most once), and the caller  *)
(* is handed no lease.                                                     *)
C31_FailureReleasesAll ==
    (pa # NoPath /\ pa.pc = "done" /\ pa.error # OK)
    => /\ pa.heap.open = <<>>
       /\ \A i \in DOMAIN pa.heap.dirs : pa.heap.dirs[i] = 1
       /\ pa.heap.own = 0
       /\ \A o \in ObjIds :
             /\ objs[o].refcount = SlotRefs(o) + ThreadRefs("t2", o)
             /\ objs[o].alive <=> objs[o].refcount > 0
             /\ ~objs[o].ebadf
             /\ objs[o].alive => objs[o].fd_open
       /\ th["t1"] = Idle
       /\ pa.fd = "none"

(* a/l/ has failed with no-entry in a, after a was entered: its descriptor *)
(* is closed, and the handle's object, whose slot the other thread has     *)
(* closed meanwhile, went with the resolver's reference.                   *)
C31_Witness ==
    /\ pa # NoPath
    /\ pa.pc = "done"
    /\ pa.error = "ENOENT"
    /\ pa.heap.dirs = <<1>>
    /\ pa.file = <<"l">>
    /\ ~objs[1].alive
    /\ ft.entries[0].object = NULL


-----------------------------------------------------------------------------
(* The limits of the two stacks, reached through links: w, that leads one  *)
(* directory further down each time it is followed, and v, whose contents  *)
(* begin with v again and leave a component behind it.                     *)

DeepPaths == UNION {[1..n -> {"/", "x", "w", "v", "a"}] : n \in 0..3}

NextDeep ==
    \/ /\ pa = NoPath
       /\ \E upath \in DeepPaths, follow, nfc \in BOOLEAN :
             path_get_enter_counted("t1", 0, upath, follow, nfc)
    \/ path_get_lookup("t1")
    \/ path_get_loop("t1")
    \/ path_get_failed("t1")
    \/ path_put_counted("t1")
    \/ LeaseForgotten("t1")

SpecDeep == InitPath /\ [][NextDeep]_vars

(* What is left of the string on top once the coming component and the     *)
(* slashes behind it are taken off.                                        *)
ComingRest(p) ==
    LET top == Top(p.paths)
        n == strcspn(top, {"/"})
    IN Skip(top, n + strspn(Skip(top, n), {"/"}))

(* C32: the stack of directories holds at most 128 descriptors and the     *)
(* stack of strings at most 32; when a directory is opened with 128 on the *)
(* stack, the call fails with name-too-long and the new descriptor has     *)
(* been closed; when a link is expanded with 32 strings on the stack and   *)
(* components left in the top one, the call fails with loop.               *)
C32_StackLimits ==
    /\ [](pa # NoPath => Len(pa.fds) <= FdsSize /\ Len(pa.paths) <= PathsSize)
    /\ [][(pa # NoPath /\ pa.pc = "loop" /\ pa' # NoPath)
          => /\ (/\ Len(pa.fds) = FdsSize
                 /\ Len(pa'.heap.dirs) = Len(pa.heap.dirs) + 1)
                => /\ pa'.pc = "done"
                   /\ pa'.error = "ENAMETOOLONG"
                   /\ \A i \in DOMAIN pa'.heap.dirs : pa'.heap.dirs[i] = 1
             /\ (/\ Len(pa.paths) = PathsSize
                 /\ pa'.expansions = pa.expansions + 1
                 /\ ComingRest(pa) # <<>>)
                => /\ pa'.pc = "done"
                   /\ pa'.error = "ELOOP"]_vars

(* x/w, links followed, has failed with name-too-long: 128 directories     *)
(* were opened, the last of them with fds[] full, and all are closed.      *)
C32_Witness ==
    /\ pa # NoPath
    /\ pa.pc = "done"
    /\ pa.error = "ENAMETOOLONG"
    /\ Len(pa.heap.dirs) = FdsSize
    /\ pa.expansions = FdsSize - 1
    /\ \A i \in DOMAIN pa.heap.dirs : pa.heap.dirs[i] = 1


-----------------------------------------------------------------------------
(* Empty components.                                                       *)

(* The positions of s that hold a slash after a slash, with a component    *)
(* before them and one after them.                                         *)
Repeated(s) ==
    {i \in 2..Len(s) : /\ s[i] = "/" /\ s[i - 1] = "/"
                       /\ \E j \in 1..i : s[j] # "/"
                       /\ \E j \in i..Len(s) : s[j] # "/"}

(* s with each run of slashes between two components cut to one slash. *)
Squeezed(s) ==
    LET keep == (1..Len(s)) \ Repeated(s)
        nth(j) == CHOOSE i \in keep : Cardinality({k \in keep : k <= i}) = j
    IN [j \in 1..Cardinality(keep) |-> s[nth(j)]]

(* The ways the calls of S can end: the loop is run until all of them have *)
(* returned or died.                                                       *)
RECURSIVE Resolved(_)
Resolved(S) ==
    IF \A p \in S : p.pc # "loop" THEN S
    ELSE Resolved(UNION {IF p.pc = "loop" THEN path_get_iteration(p) ELSE {p}
                         : p \in S})

(* What the caller sees of a call that has ended. *)
Outcome(p) == [pc |-> p.pc, error |-> p.error, fd |-> p.fd, path |-> p.path]

(* C33: when the loop meets a string that begins with a slash, be it the   *)
(* pathname or the contents of a link, the call fails with not-capable;    *)
(* when it meets the empty pathname, with no-entry; and a pathname with    *)
(* several slashes between two components resolves as the one with a       *)
(* single slash there does.                                                *)
C33_EmptyComponents ==
    /\ [][(pa # NoPath /\ pa.pc = "loop" /\ pa' # pa)
          => /\ (Top(pa.paths) # <<>> /\ Head(Top(pa.paths)) = "/")
                => pa' # NoPath /\ pa'.pc = "done"
                                /\ pa'.error = CLOUDABI_ENOTCAPABLE
             /\ Top(pa.paths) = <<>>
                => pa' # NoPath /\ pa'.pc = "done" /\ pa'.error = "ENOENT"]_vars
    /\ [](pa # NoPath /\ pa.pc = "loop" /\ Repeated(Top(pa.paths)) # {}
          => {Outcome(p) : p \in Resolved({pa})}
             = {Outcome(p) : p \in
                   Resolved({[pa EXCEPT !.paths[Len(pa.paths)] = Squeezed(@)]})})

(* The link b, whose contents are /o, was followed and the call has failed *)
(* with not-capable on the empty component in front of the slash.          *)
C33_Witness ==
    /\ pa # NoPath
    /\ pa.pc = "done"
    /\ pa.error = CLOUDABI_ENOTCAPABLE
    /\ pa.expansions = 1
    /\ pa.file = <<>>


-----------------------------------------------------------------------------
(* The lease's follow flag.                                                *)

(* The lease's residual pathname is the name of a symbolic link, with no   *)
(* slash behind it.                                                        *)
ResidualIsLink(p) ==
    /\ strcspn(p.path, {"/"}) = Len(p.path)
    /\ dirent(p.fd, p.path).kind = "lnk"

(* C34: every lease path_get() returns has follow unset, whether or not    *)
(* the caller asked for links to be followed; sys_file_open() therefore    *)
(* opens the residual pathname with O_NOFOLLOW: when it names a symbolic   *)
(* link, the call returns an error and nothing is installed.               *)
C34_LeaseNeverFollows ==
    /\ [](pa # NoPath /\ pa.pc = "done" /\ pa.error = OK => ~pa.follow)
    /\ [][(/\ pa # NoPath /\ pa.pc = "done" /\ pa.error = OK
           /\ pa.caller.op = "file_open"
           /\ pa' = NoPath
           /\ ResidualIsLink(pa))
          => /\ th'[pa.t] = Idle
             /\ ft' = ft]_vars

(* A lease for s, asked for with links followed: the resolver has expanded *)
(* the link to a, and the lease says not to follow.                        *)
C34_Witness ==
    /\ pa # NoPath
    /\ pa.pc = "done"
    /\ pa.error = OK
    /\ pa.caller.op = "file_open"
    /\ pa.flags_follow
    /\ ~pa.follow
    /\ pa.expansions = 1
    /\ pa.path = <<"a">>


-----------------------------------------------------------------------------
(* The timeout of poll().                                                  *)

INT_MAX == 2147483647

(* clock.timeout / 1000000 of a subscription, which is hi * 2^31 + lo, cut *)
(* to INT_MAX.                                                             *)
Clamped(s) == IF s.timeout.hi > 0 THEN INT_MAX ELSE Min(s.timeout.lo, INT_MAX)

(* C35: poll() is called with timeout 0 when the scan has written an       *)
(* event, with -1 when no clock subscription was accepted, and otherwise   *)
(* with the accepted subscription's timeout in milliseconds, cut to the    *)
(* largest timeout poll() takes: a wait that ends.                         *)
C35_AsStated ==
    \A t \in Threads :
        th[t].pc = "poll_host" =>
            LET p == th[t]
                timeout == PollTimeout(p.nevents, p.in, p.clock_subscription)
            IN IF p.nevents # 0 THEN timeout = 0
               ELSE IF p.clock_subscription = NULL THEN timeout = -1
               ELSE timeout = Clamped(p.in[p.clock_subscription])


-----------------------------------------------------------------------------
(* The order of the events.                                                *)

(* Where the k-th event of out[] comes from: 1, written by the scan for a  *)
(* subscription it kept out of poll(); 2, written after poll() for a       *)
(* descriptor; 3, the clock event.                                         *)
Generation(p, k) ==
    LET e == p.out[k]
    IN IF p.pfds[e.index].fd # NoPollfd.fd THEN 2
       ELSE IF e.index = p.clock_subscription THEN 3
       ELSE 1

(* C36: out[] holds first the events the scan wrote, then those written    *)
(* after poll(), then the clock event, and within the first two groups     *)
(* the events are in the order of their subscriptions.                     *)
C36_GenerationOrder ==
    \A t \in Threads :
        ("out" \in DOMAIN th[t] /\ GeneralPoll(th[t])) =>
            LET p == th[t]
            IN \A j, k \in 1..Len(p.out) :
                  j < k =>
                     /\ Generation(p, j) <= Generation(p, k)
                     /\ Generation(p, j) = Generation(p, k)
                           => p.out[j].index < p.out[k].index

(* The second subscription was refused in the scan and the first reported  *)
(* by poll(): the event of the second comes first.                         *)
C36_Witness ==
    /\ th["t1"].pc = "poll_out"
    /\ Len(th["t1"].out) = 2
    /\ th["t1"].out[1].index = 2
    /\ th["t1"].out[1].error = "ENOSYS"
    /\ th["t1"].out[2].index = 1
    /\ th["t1"].out[2].error = OK
    /\ th["t1"].ret = 1


-----------------------------------------------------------------------------
(* Subscriptions the scan refuses.                                         *)

(* The events of out[] written for subscription i. *)
EventsFor(p, i) == {k \in 1..Len(p.out) : p.out[k].index = i}

(* Subscription i has exactly one event, with this error and with the      *)
(* subscription's userdata and type.                                       *)
OneErrorEvent(p, i, error) ==
    /\ Cardinality(EventsFor(p, i)) = 1
    /\ \A k \in EventsFor(p, i) :
          /\ p.out[k].error = error
          /\ p.out[k].userdata = p.in[i].userdata
          /\ p.out[k].type = p.in[i].type

(* C37: in a call that goes through poll(), an FD_READ or FD_WRITE         *)
(* subscription whose descriptor the table does not hold, or holds without *)
(* the right to poll it, gets exactly one event, with bad-fd or            *)
(* not-capable and the subscription's userdata and type; its pollfd is the *)
(* one poll() skips, no reference is taken for it, and the call does not   *)
(* fail because of it.  The table is the one the scan saw while the lock   *)
(* is held; afterwards the subscription is known by its pollfd.            *)
C37_RefusedSubscription ==
    \A t \in Threads :
        ("out" \in DOMAIN th[t] /\ GeneralPoll(th[t])) =>
            LET p == th[t]
            IN /\ \A i \in 1..Len(p.in) :
                     LET error == fd_table_get_entry(ft, p.in[i].fd,
                                                     {"POLL_FD_READWRITE"}, {})
                     IN /\ (/\ p.pc = "poll_scanned"
                            /\ p.in[i].type \in {"FD_READ", "FD_WRITE"}
                            /\ error # OK)
                           => /\ error \in {CLOUDABI_EBADF, CLOUDABI_ENOTCAPABLE}
                              /\ OneErrorEvent(p, i, error)
                              /\ p.pfds[i] = NoPollfd
                              /\ p.fos[i] = NULL
                        /\ (/\ p.pc \in {"poll_host", "poll_out"}
                            /\ p.in[i].type \in {"FD_READ", "FD_WRITE"}
                            /\ p.pfds[i] = NoPollfd)
                           => \/ OneErrorEvent(p, i, CLOUDABI_EBADF)
                              \/ OneErrorEvent(p, i, CLOUDABI_ENOTCAPABLE)
               /\ p.error # OK => p.pc = "poll_out" /\ p.ret = -1
               /\ p.pc = "poll_scanned" =>
                     \A o \in ObjIds :
                        objs[o].refcount =
                           SlotRefs(o) + Count(p.fos, o)
                           + ThreadRefs(CHOOSE u \in Threads : u # t, o)

(* The scan has refused the first subscription, whose descriptor has lost  *)
(* the right to be polled, and kept the second.                            *)
C37_Witness ==
    /\ th["t1"].pc = "poll_scanned"
    /\ Len(th["t1"].in) = 2
    /\ th["t1"].in[1].type = "FD_WRITE"
    /\ th["t1"].in[1].userdata = 8
    /\ th["t1"].out = <<[userdata |-> 8, error |-> CLOUDABI_ENOTCAPABLE,
                         type |-> "FD_WRITE", flags |-> "none", index |-> 1]>>
    /\ th["t1"].fos[1] = NULL
    /\ th["t1"].fos[2] # NULL


-----------------------------------------------------------------------------
(* Clock subscriptions and unsupported ones.                               *)

(* The relative clock subscriptions of in[]. *)
RelativeClocks(in) ==
    {i \in 1..Len(in) : in[i].type = "CLOCK" /\ ~in[i].abstime}

(* C38: in a call that goes through poll(), the clock subscription taken   *)
(* as the timeout is the first relative one, if there is any; every other  *)
(* clock subscription, relative or absolute, and every subscription of a   *)
(* type other than FD_READ, FD_WRITE and CLOCK gets exactly one event,     *)
(* written by the scan, with error no-sys, and the one taken gets none     *)
(* from the scan.                                                          *)
C38_OneClock ==
    \A t \in Threads :
        ("out" \in DOMAIN th[t] /\ GeneralPoll(th[t])) =>
            LET p == th[t]
                first == IF RelativeClocks(p.in) = {} THEN NULL
                         ELSE CHOOSE i \in RelativeClocks(p.in) :
                                 \A j \in RelativeClocks(p.in) : i <= j
            IN /\ p.clock_subscription = first
               /\ \A i \in 1..Len(p.in) :
                     /\ (p.in[i].type \notin {"FD_READ", "FD_WRITE"} /\ i # first)
                        => /\ OneErrorEvent(p, i, "ENOSYS")
                           /\ Generation(p, CHOOSE k \in EventsFor(p, i) : TRUE) = 1
                           /\ p.pc # "poll_out" => p.fos[i] = NULL
                     /\ i = first
                        => \A k \in EventsFor(p, i) :
                              p.out[k].error = OK /\ p.pc = "poll_out"

(* The scan of an absolute clock subscription followed by a relative one:  *)
(* the first is refused, the second is the timeout.                        *)
C38_Witness ==
    /\ th["t1"].pc = "poll_scanned"
    /\ Len(th["t1"].in) = 2
    /\ th["t1"].in[1].type = "CLOCK" /\ th["t1"].in[1].abstime
    /\ th["t1"].in[2].type = "CLOCK" /\ ~th["t1"].in[2].abstime
    /\ th["t1"].clock_subscription = 2
    /\ Len(th["t1"].out) = 1
    /\ th["t1"].out[1].index = 1
    /\ th["t1"].out[1].error = "ENOSYS"


-----------------------------------------------------------------------------
(* sys_file_readdir() statement by statement: two threads read the same    *)
(* directory object through the two descriptors that share it.  The        *)
(* object's mutex is held by the thread whose mutex field names the        *)
(* object.                                                                 *)

(* The thread of a call that holds its reference and is about to lock. *)
DirThread(fd, fo, nbyte, cookie) ==
    [pc |-> "readdir_lock", fo |-> fo, rel |-> <<>>, fd |-> fd, nbyte |-> nbyte,
     cookie |-> cookie, mutex |-> NULL, buf |-> <<>>, bufused |-> 0,
     snap |-> FreedObject]

(* fd_object_get(&fo, fd, CLOUDABI_RIGHT_FILE_READDIR, 0) *)
sys_file_readdir_get(t, fd, nbyte, cookie) ==
    /\ Running(t)
    /\ LET error == fd_table_get_entry(ft, fd, {"FILE_READDIR"}, {})
       IN IF error # OK
          THEN Return(DirStep(fd, "none", nbyte, cookie, error, <<>>, -1))
          ELSE /\ objs' = fd_object_get_locked(objs, ft, fd)
               /\ th' = [th EXCEPT ![t] =
                            DirThread(fd, ft.entries[fd].object, nbyte, cookie)]
               /\ UNCHANGED <<ft, last, fault, pa>>

(* A mutex that is handed to whoever asks. *)
DirLockFree_always(o) == TRUE

(* No thread holds fo->directory.lock of object o. *)
DirLockFree(o) ==
    \A u \in Threads : "mutex" \in DOMAIN th[u] => th[u].mutex # o

(* mutex_lock(&fo->directory.lock) *)
readdir_mutex_lock(t) ==
    /\ fault = "none"
    /\ th[t].pc = "readdir_lock"
    /\ DirLockFree(th[t].fo)
    /\ th' = [th EXCEPT ![t].pc = "readdir_open", ![t].mutex = th[t].fo]
    /\ UNCHANGED <<ft, objs, last, fault, pa>>

(* mutex_unlock(), fd_object_release() and the return of err, with         *)
(* *bufused as it is.                                                      *)
ReaddirReturn(t, err, bufused) ==
    /\ objs' = fd_object_release(objs, th[t].fo)
    /\ th' = [th EXCEPT ![t] = Idle]
    /\ last' = DirStep(th[t].fd, fd_number(objs, th[t].fo), th[t].nbyte,
                       th[t].cookie, err, th[t].buf, bufused)

(* dp = fo->directory.handle; if it is NULL, fdopendir(), which can fail. *)
readdir_open(t) ==
    /\ fault = "none"
    /\ th[t].pc = "readdir_open"
    /\ LET o == th[t].fo
       IN \/ /\ objs[o].handle = NULL
             /\ ReaddirReturn(t, convert_errno("host.ENOMEM"), -1)
          \/ /\ objs' = [objs EXCEPT ![o] = DirInstalled(@)]
             /\ th' = [th EXCEPT ![t].pc = "readdir_seek"]
             /\ UNCHANGED last
    /\ UNCHANGED <<ft, fault, pa>>

(* The seek to cookie; *bufused = 0. *)
readdir_seek(t) ==
    /\ fault = "none"
    /\ th[t].pc = "readdir_seek"
    /\ \E fo \in DirSought(objs[th[t].fo], th[t].cookie) :
          /\ objs' = [objs EXCEPT ![th[t].fo] = fo]
          /\ th' = [th EXCEPT ![t].pc = "readdir_loop", ![t].snap = fo]
    /\ UNCHANGED <<ft, last, fault, pa>>

(* One turn of while (nbyte > 0): readdir() gives the next entry, which is *)
(* put in the buffer, or NULL, at the end or with an error.                *)
readdir_next(t) ==
    /\ fault = "none"
    /\ th[t].pc = "readdir_loop"
    /\ LET o == th[t].fo
           entries == Listing(objs[o].number)
           i == objs[o].pos + 1
           read == ReadEntries(entries, i, i, th[t].nbyte, th[t].buf,
                               th[t].bufused)
       IN IF ~(th[t].nbyte > 0) THEN ReaddirReturn(t, OK, th[t].bufused)
          ELSE \/ /\ i <= Len(entries)
                  /\ objs' = [objs EXCEPT ![o].pos = i, ![o].offset = telldir(i)]
                  /\ th' = [th EXCEPT ![t].buf = read.buf,
                                      ![t].bufused = read.bufused]
                  /\ UNCHANGED last
               \/ /\ i > Len(entries)
                  /\ ReaddirReturn(t, OK, th[t].bufused)
               \/ ReaddirReturn(t, IF th[t].bufused > 0 THEN OK
                                   ELSE convert_errno("host.ENOENT"),
                                th[t].bufused)
    /\ UNCHANGED <<ft, fault, pa>>

StreamBuffers == {0, 10, 2 * DirentSize + 4}
StreamCookies == {CLOUDABI_DIRCOOKIE_START, telldir(1)}

NextStream ==
    \/ \E t \in Threads, fd \in DirFds, nbyte \in StreamBuffers,
          cookie \in StreamCookies : sys_file_readdir_get(t, fd, nbyte, cookie)
    \/ \E t \in Threads : readdir_mutex_lock(t)
    \/ \E t \in Threads : readdir_open(t)
    \/ \E t \in Threads : readdir_seek(t)
    \/ \E t \in Threads : readdir_next(t)
    \/ \E t \in Threads : DirClose(t)

SpecStream == InitDir /\ [][NextStream]_vars

(* Thread t is between mutex_lock() and mutex_unlock(). *)
InSection(t) == th[t].pc \in {"readdir_open", "readdir_seek", "readdir_loop"}

(* C39: two calls of sys_file_readdir() on one directory object, through   *)
(* the same descriptor or through two that share the object, are never     *)
(* both between mutex_lock() and mutex_unlock(); a call in there holds the *)
(* mutex and one that has returned does not; the stream is opened only     *)
(* when the object has none; the stream's position and the cached cursor   *)
(* change only while a call holds the mutex, in steps that are not the     *)
(* other thread's, and what a call returns is what it returns when it runs *)
(* alone from the state its seek left.                                     *)
C39_ReaddirExclusive ==
    /\ [](\A t \in Threads :
             /\ InSection(t) =>
                   /\ th[t].mutex = th[t].fo
                   /\ objs[th[t].fo].alive
                   /\ \A u \in Threads \ {t} :
                         InSection(u) => th[u].fo # th[t].fo
             /\ ~InSection(t) => ("mutex" \in DOMAIN th[t] => th[t].mutex = NULL))
    /\ [][/\ \A o \in ObjIds :
                (/\ objs[o].alive /\ objs'[o].alive
                 /\ <<objs'[o].pos, objs'[o].offset, objs'[o].handle,
                      objs'[o].dir_open>>
                    # <<objs[o].pos, objs[o].offset, objs[o].handle,
                         objs[o].dir_open>>)
                => \E t \in Threads :
                      /\ InSection(t) /\ th[t].fo = o /\ th[t].mutex = o
                      /\ \A u \in Threads \ {t} : th'[u] = th[u]
                      /\ objs'[o].dir_open # objs[o].dir_open
                            => objs[o].handle = NULL /\ th[t].pc = "readdir_open"
          /\ \A t \in Threads :
                (th[t].pc = "readdir_loop" /\ th'[t].pc = "idle")
                => \E r \in DirLoop(th[t].snap, th[t].nbyte) :
                      /\ r.fo.pos = objs[th[t].fo].pos
                      /\ r.fo.offset = objs[th[t].fo].offset
                      /\ r.buf = last'.buf
                      /\ r.error = last'.err
                      /\ r.bufused = last'.bufused]_vars

(* One call is reading entries under the mutex while the other, on the     *)
(* descriptor that shares the object, waits for it.                        *)
C39_Witness ==
    /\ th["t1"].pc = "readdir_loop"
    /\ th["t1"].buf # <<>>
    /\ th["t2"].pc = "readdir_lock"
    /\ th["t1"].fd # th["t2"].fd
    /\ th["t1"].fo = th["t2"].fo
    /\ ~ENABLED readdir_mutex_lock("t2")


-----------------------------------------------------------------------------
(* The full buffer.                                                        *)

(* C40: a sys_file_readdir() that succeeds returns bufused <= nbyte, and   *)
(* it stops reading the directory when the buffer is full: on return the   *)
(* stream stands behind the entry of the last record put in the buffer,    *)
(* and the cached cursor is that record's d_next.                          *)
C40_AsStated ==
    [][\A t \in Threads :
          (/\ th[t].pc = "readdir" /\ th'[t].pc = "idle"
           /\ last'.err = OK /\ last'.bufused >= 0)
          => /\ last'.bufused <= th[t].nbyte
             /\ (last'.buf # <<>> /\ objs'[th[t].fo].alive)
                => /\ objs'[th[t].fo].offset = last'.buf[Len(last'.buf)].d_next
                   /\ telldir(objs'[th[t].fo].pos)
                         = last'.buf[Len(last'.buf)].d_next]_vars

=============================================================================
